---- MODULE Spec2Model ----
(***************************************************************************)
(* DescribeOnlySource (package sources): Get / List / Search over one AWS  *)
(* resource type, with the per-source result cache and the paginated       *)
(* describe routine.  One action per public method; every action models    *)
(* the whole method, including the cache stores it performs (Spec).        *)
(* SpecConc interleaves the steps of concurrent calls around cacheInitMu   *)
(* and the cache; SpecLimit follows the rate-limited functions taking      *)
(* tokens from the LimitBucket.                                            *)
(*                                                                         *)
(* Strings are modelled structurally: a scope is the sequence of its       *)
(* dot-separated parts, a query the sequence of its colon-                 *)
(* or slash-separated sections.  An item is identified by its unique       *)
(* attribute value.                                                        *)
(***************************************************************************)
EXTENDS Integers, Sequences, FiniteSets, TLC

VARIABLES
    cfg,        \* the DescribeOnlySource struct fields the methods read or write
    cacheInit,  \* s.cache != nil
    cache,      \* contents of s.cache: cache key -> entry
    last,       \* record of the most recent call: arguments, result, callbacks used
    conc,       \* calls in flight on concurrent goroutines, and cacheInitMu
    limit,      \* the rate-limit bucket and the calls acquiring tokens from it
    elb,        \* the legacy ELB source, the service it talks to and its most recent call
    iam,        \* the IAM user functions: the service they talk to and their most recent call
    ecs,        \* the DescribeCapacityProviders paginator and the calls made on it
    elbv2       \* the listener action handed to ActionToRequests and the requests it yields

vars == <<cfg, cacheInit, cache, last, conc, limit, elb, iam, ecs, elbv2>>

----------------------------------------------------------------------------
(* Bounds of the model *)

MaxPages == 3        \* pages a paginator yields at most
MaxPageItems == 2    \* items the output mapper yields for one page at most
MaxGetItems == 2     \* items the output mapper yields for one Get at most
MaxEntries == 1      \* live cache entries the model follows at a time
MaxListedItems == 3  \* items the output mapper yields for a Get that lists
NumProcs == 2        \* goroutines calling the source concurrently
MaxCapacity == 2     \* tokens the rate-limit bucket holds at most
MaxLBs == 1          \* load balancers one DescribeLoadBalancers answer holds at most
MaxPageGroups == 1   \* groups one ListGroupsForUser answer holds at most
MaxCalls == 4        \* NextPage calls followed on one paginator
MaxTargetGroups == 2 \* target groups a ForwardConfig holds at most

----------------------------------------------------------------------------
(* Values *)

AccountID == "111111111111"
OtherAccountID == "222222222222"
Region == "region"
ItemType == "ec2-subnet"

IdSeq ==
    <<"id-1", "id-2", "id-3", "id-4", "id-5", "id-6",
      "id-7", "id-8", "id-9", "id-10", "id-11", "id-12">>
GetIds == {"id-1", "id-2"}
GetQueries == {<<"id-1">>, <<"id-2">>}
ListedIds == {"id-1", "id-2", "id-3"}

DefaultMaxResultsPerPage == 100

NoErr == [type |-> "nil", str |-> <<>>]
Panic == [type |-> "panic", str |-> <<>>]
Raw(msg) == [type |-> "raw", str |-> <<msg>>]
QueryError(t, s) == [type |-> t, str |-> s]

NoEntry == [kind |-> "none"]
ItemsEntry(items) == [kind |-> "items", items |-> items]
ErrorEntry(e) == [kind |-> "error", err |-> e]

NoCalls ==
    [validate |-> 0, ensureCache |-> 0, lookup |-> 0, storeItem |-> 0,
     storeError |-> 0, inputMapper |-> 0, describe |-> 0, nextPage |-> 0,
     outputMapper |-> 0, get |-> 0]

----------------------------------------------------------------------------
(* Helpers of package sources *)

\* FormatScope(accountID, region): "{accountID}.{region}", the account alone
\* when there is no region
FormatScope(accountID, region) ==
    IF region = "" THEN <<accountID>> ELSE <<accountID, region>>

\* ParseARN(query): arn:partition:service:region:account:resource, the
\* resource being everything after the fifth colon
ParseARN(query) ==
    IF Len(query) >= 6 /\ query[1] = "arn"
    THEN [ok |-> TRUE, Region |-> query[4], AccountID |-> query[5],
          Resource |-> SubSeq(query, 6, Len(query)), err |-> NoErr]
    ELSE [ok |-> FALSE, Region |-> "", AccountID |-> "", Resource |-> <<>>,
          err |-> Raw("arn: invalid prefix or not enough sections")]

\* ARN.ResourceID(): the last slash-separated part of the resource section
ResourceID(a) == <<a.Resource[Len(a.Resource)]>>

\* WrapAWSError(err): errors already in the taxonomy pass through, anything
\* else becomes a QueryError of type OTHER carrying the message
WrapAWSError(err) ==
    IF err.type = "raw" THEN QueryError("OTHER", err.str) ELSE err

\* sdp.Item.GloballyUniqueName(): {scope}.{type}.{uniqueAttributeValue}
GloballyUniqueName(scope, item) == <<scope, ItemType, item>>

\* UniqueAttributeValue(): an item is modelled by its unique attribute value
UniqueAttributeValue(item) == <<item>>

----------------------------------------------------------------------------
(* DescribeOnlySource accessors *)

Name == <<ItemType, "-source">>

Scopes == <<FormatScope(AccountID, Region)>>

Paginated(c) == c.PaginatorBuilder

\* Validate() without the check of the output mapper
ValidateOutputMapperUnchecked(c) ==
    IF ~c.DescribeFunc
    THEN [err |-> Raw("source describe func is nil"), cfg |-> c]
    ELSE LET c2 == IF c.MaxResultsPerPage = 0
                   THEN [c EXCEPT !.MaxResultsPerPage = DefaultMaxResultsPerPage]
                   ELSE c
         IN  IF ~c2.InputMapperGet
             THEN [err |-> Raw("source get input mapper is nil"), cfg |-> c2]
             ELSE [err |-> NoErr, cfg |-> c2]

\* Validate(): returns the error and the struct as Validate leaves it
Validate(c) ==
    IF ~c.DescribeFunc
    THEN [err |-> Raw("source describe func is nil"), cfg |-> c]
    ELSE LET c2 == IF c.MaxResultsPerPage = 0
                   THEN [c EXCEPT !.MaxResultsPerPage = DefaultMaxResultsPerPage]
                   ELSE c
         IN  IF ~c2.InputMapperGet
             THEN [err |-> Raw("source get input mapper is nil"), cfg |-> c2]
             ELSE IF ~c2.OutputMapper
                  THEN [err |-> Raw("source output mapper is nil"), cfg |-> c2]
                  ELSE [err |-> NoErr, cfg |-> c2]

----------------------------------------------------------------------------
(* The result cache *)

CacheKeyFromParts(srcName, method, scope, typ, query) ==
    <<srcName, method, scope, typ, query>>

Entry(c, ck) == IF ck \in DOMAIN c THEN c[ck] ELSE NoEntry

\* Lookup: (cacheHit, cachedItems, qErr); ignoreCache always misses, a
\* recorded error comes back as qErr
Lookup(c, ck, ignoreCache) ==
    LET e == Entry(c, ck) IN
    IF ignoreCache \/ e.kind = "none"
    THEN [hit |-> FALSE, items |-> <<>>, qErr |-> NoErr]
    ELSE IF e.kind = "error"
         THEN [hit |-> TRUE, items |-> <<>>, qErr |-> e.err]
         ELSE [hit |-> TRUE, items |-> e.items, qErr |-> NoErr]

Put(c, ck, e) == [k \in (DOMAIN c) \cup {ck} |-> IF k = ck THEN e ELSE c[k]]

Contains(s, x) == \E i \in 1..Len(s) : s[i] = x

\* StoreItem: the item joins the items held under the key (an item already
\* held is replaced by itself); a recorded error under the key is replaced
StoreItem(c, item, ck) ==
    LET e == Entry(c, ck) IN
    IF e.kind = "items"
    THEN IF Contains(e.items, item) THEN c
         ELSE Put(c, ck, ItemsEntry(Append(e.items, item)))
    ELSE Put(c, ck, ItemsEntry(<<item>>))

\* StoreError: the error replaces whatever is held under the key
StoreError(c, err, ck) == Put(c, ck, ErrorEntry(err))

RECURSIVE StoreItems(_, _, _)
StoreItems(c, items, ck) ==
    IF items = <<>> THEN c
    ELSE StoreItems(StoreItem(c, Head(items), ck), Tail(items), ck)

----------------------------------------------------------------------------
(* What the caller-supplied callbacks answer during one call: imErr says    *)
(* whether the input mapper fails; pages[i] is the answer to the i-th       *)
(* DescribeFunc / NextPage call: fail = "call" when that call fails,        *)
(* "cancelled" when it returns because the context of the call was          *)
(* cancelled while it waited for the rate limiter or for the service,       *)
(* "outputMapper" when the output mapper fails on its output, otherwise     *)
(* items are the items the output mapper yields for it.                     *)

ImErr == Raw("input mapper failed")
CallErr == Raw("describe failed")
CtxErr == Raw("context canceled")
OmErr == Raw("output mapper failed")

Page(fail, items) == [fail |-> fail, items |-> items]

\* the answers with which the DescribeFunc / NextPage call itself fails, and
\* the error it then returns
CallFails == {"call", "cancelled"}
CallErrOf(fail) == IF fail = "cancelled" THEN CtxErr ELSE CallErr

\* the outcome of one call: what is returned, the state it leaves, the
\* callbacks and cache operations it used, and what the output mapper yielded
Outcome(items, err, c, ci, ch, calls, hit, mapped) ==
    [items |-> items, err |-> err, cfg |-> c, cacheInit |-> ci, cache |-> ch,
     calls |-> calls, hit |-> hit, mapped |-> mapped]

RECURSIVE Names(_, _)
Names(scope, items) ==
    IF items = <<>> THEN <<>>
    ELSE <<GloballyUniqueName(scope, Head(items))>> \o Names(scope, Tail(items))

\* the loop keeping the first item whatever its unique attribute value
FilterHead(items, query) == IF items = <<>> THEN <<>> ELSE <<Head(items)>>

\* the loop without its break: every item whose unique attribute value
\* equals the query is kept
RECURSIVE FilterAll(_, _)
FilterAll(items, query) ==
    IF items = <<>> THEN <<>>
    ELSE IF UniqueAttributeValue(Head(items)) = query
         THEN <<Head(items)>> \o FilterAll(Tail(items), query)
         ELSE FilterAll(Tail(items), query)

\* the loop of Get that keeps the first item whose unique attribute value
\* equals the query
RECURSIVE FilterFirst(_, _)
FilterFirst(items, query) ==
    IF items = <<>> THEN <<>>
    ELSE IF UniqueAttributeValue(Head(items)) = query THEN <<Head(items)>>
         ELSE FilterFirst(Tail(items), query)

----------------------------------------------------------------------------
(* Get *)

\* the scope check answering with the error type of a missing item
NoScopeErrAsNotFound(scope) ==
    QueryError("NOTFOUND", <<"requested scope", scope,
                             "does not match source scope", Scopes[1]>>)

NoScopeErr(scope) ==
    QueryError("NOSCOPE", <<"requested scope", scope,
                            "does not match source scope", Scopes[1]>>)

\* the error naming only the first item
AmbiguousErrFirstOnly(scope, items) ==
    QueryError("OTHER", <<"Request returned > 1 item for a GET request. Items:",
                          <<GloballyUniqueName(scope, items[1])>> >>)

\* case numItems > 1: the error names every item
AmbiguousErr(scope, items) ==
    QueryError("OTHER", <<"Request returned > 1 item for a GET request. Items:",
                          Names(scope, items)>>)

\* case numItems == 0 answered without an error
NotFoundErrNone(query) == NoErr

\* case numItems == 0
NotFoundErr(query) == QueryError("NOTFOUND", <<ItemType, query, "not found">>)

\* the switch with the NOTFOUND error returned but not recorded
GetSwitchNotFoundUnrecorded(c, ch, scope, query, ck, items, k, mapped) ==
    LET numItems == Len(items) IN
    IF numItems > 1
    THEN LET qErr == AmbiguousErr(scope, items)
         IN  Outcome(<<>>, qErr, c, TRUE, StoreError(ch, qErr, ck),
                     [k EXCEPT !.storeError = 1], FALSE, mapped)
    ELSE IF numItems = 0
    THEN Outcome(<<>>, NotFoundErr(query), c, TRUE, ch, k, FALSE, mapped)
    ELSE Outcome(<<items[1]>>, NoErr, c, TRUE, StoreItem(ch, items[1], ck),
                 [k EXCEPT !.storeItem = 1], FALSE, mapped)

\* the switch on numItems that ends Get: the error is recorded and returned
\* when there is not exactly one item, the item is stored and returned
\* otherwise
GetSwitch(c, ch, scope, query, ck, items, k, mapped) ==
    LET numItems == Len(items) IN
    IF numItems > 1
    THEN LET qErr == AmbiguousErr(scope, items)
         IN  Outcome(<<>>, qErr, c, TRUE, StoreError(ch, qErr, ck),
                     [k EXCEPT !.storeError = 1], FALSE, mapped)
    ELSE IF numItems = 0
    THEN LET qErr == NotFoundErr(query)
         IN  Outcome(<<>>, qErr, c, TRUE, StoreError(ch, qErr, ck),
                     [k EXCEPT !.storeError = 1], FALSE, mapped)
    ELSE Outcome(<<items[1]>>, NoErr, c, TRUE, StoreItem(ch, items[1], ck),
                 [k EXCEPT !.storeItem = 1], FALSE, mapped)

GetImpl(c, ci, ch, scope, query, ignoreCache, up) ==
    IF scope # Scopes[1]
    THEN Outcome(<<>>, NoScopeErr(scope), c, ci, ch, NoCalls, FALSE, <<>>)
    ELSE
    LET v == Validate(c)
        k1 == [NoCalls EXCEPT !.validate = 1]
    IN
    IF v.err # NoErr
    THEN Outcome(<<>>, WrapAWSError(v.err), v.cfg, ci, ch, k1, FALSE, <<>>)
    ELSE
    LET ck == CacheKeyFromParts(Name, "GET", scope, ItemType, query)
        lk == Lookup(ch, ck, ignoreCache)
        k2 == [k1 EXCEPT !.ensureCache = 1, !.lookup = 1]
    IN
    IF lk.qErr # NoErr
    THEN Outcome(<<>>, lk.qErr, v.cfg, TRUE, ch, k2, TRUE, <<>>)
    ELSE IF lk.hit
    THEN Outcome(IF Len(lk.items) > 0 THEN <<lk.items[1]>> ELSE <<>>, NoErr,
                 v.cfg, TRUE, ch, k2, TRUE, <<>>)
    ELSE
    LET k3 == [k2 EXCEPT !.inputMapper = 1] IN
    IF up.imErr
    THEN Outcome(<<>>, WrapAWSError(ImErr), v.cfg, TRUE,
                 StoreError(ch, WrapAWSError(ImErr), ck),
                 [k3 EXCEPT !.storeError = 1], FALSE, <<>>)
    ELSE
    LET k4 == [k3 EXCEPT !.describe = 1]
        pg == up.pages[1]
    IN
    IF pg.fail \in CallFails
    THEN Outcome(<<>>, WrapAWSError(CallErrOf(pg.fail)), v.cfg, TRUE,
                 StoreError(ch, WrapAWSError(CallErrOf(pg.fail)), ck),
                 [k4 EXCEPT !.storeError = 1], FALSE, <<>>)
    ELSE
    LET k5 == [k4 EXCEPT !.outputMapper = 1] IN
    IF pg.fail = "outputMapper"
    THEN Outcome(<<>>, WrapAWSError(OmErr), v.cfg, TRUE,
                 StoreError(ch, WrapAWSError(OmErr), ck),
                 [k5 EXCEPT !.storeError = 1], FALSE, <<>>)
    ELSE
    LET items == IF c.UseListForGet THEN FilterFirst(pg.items, query)
                 ELSE pg.items
    IN  GetSwitch(v.cfg, ch, scope, query, ck, items, k5, pg.items)

----------------------------------------------------------------------------
(* describe: one DescribeFunc call, or the paginator drained page by page  *)

DescribeResult(items, err, k, panic) ==
    [items |-> items, err |-> err, calls |-> k, panic |-> panic]

\* the loop left after its first page
RECURSIVE DescribePagesFirstOnly(_, _, _, _, _)
DescribePagesFirstOnly(c, pages, i, acc, k) ==
    IF i > Len(pages) \/ i > 1 THEN DescribeResult(acc, NoErr, k, FALSE)
    ELSE
    LET k1 == [k EXCEPT !.nextPage = @ + 1] IN
    IF pages[i].fail \in CallFails
    THEN DescribeResult(<<>>, CallErrOf(pages[i].fail), k1, FALSE)
    ELSE IF ~c.OutputMapper THEN DescribeResult(<<>>, Panic, k1, TRUE)
    ELSE
    LET k2 == [k1 EXCEPT !.outputMapper = @ + 1] IN
    IF pages[i].fail = "outputMapper" THEN DescribeResult(<<>>, OmErr, k2, FALSE)
    ELSE DescribePagesFirstOnly(c, pages, i + 1, acc \o pages[i].items, k2)

\* the loop "for paginator.HasMorePages()": page i is fetched, mapped and
\* appended; the first failure returns
RECURSIVE DescribePages(_, _, _, _, _)
DescribePages(c, pages, i, acc, k) ==
    IF i > Len(pages) THEN DescribeResult(acc, NoErr, k, FALSE)
    ELSE
    LET k1 == [k EXCEPT !.nextPage = @ + 1] IN
    IF pages[i].fail \in CallFails
    THEN DescribeResult(<<>>, CallErrOf(pages[i].fail), k1, FALSE)
    ELSE IF ~c.OutputMapper THEN DescribeResult(<<>>, Panic, k1, TRUE)
    ELSE
    LET k2 == [k1 EXCEPT !.outputMapper = @ + 1] IN
    IF pages[i].fail = "outputMapper" THEN DescribeResult(<<>>, OmErr, k2, FALSE)
    ELSE DescribePages(c, pages, i + 1, acc \o pages[i].items, k2)

\* describe handing the output of a failed DescribeFunc call to the output
\* mapper before it returns the error
describeMapsAfterFailure(c, up, k) ==
    IF Paginated(c) THEN DescribePages(c, up.pages, 1, <<>>, k)
    ELSE
    IF ~c.DescribeFunc THEN DescribeResult(<<>>, Panic, k, TRUE)
    ELSE
    LET k1 == [k EXCEPT !.describe = 1]
        pg == up.pages[1]
    IN
    IF ~c.OutputMapper THEN DescribeResult(<<>>, Panic, k1, TRUE)
    ELSE
    LET k2 == [k1 EXCEPT !.outputMapper = 1] IN
    IF pg.fail \in CallFails
    THEN DescribeResult(<<>>, CallErrOf(pg.fail), k2, FALSE)
    ELSE IF pg.fail = "outputMapper" THEN DescribeResult(<<>>, OmErr, k2, FALSE)
    ELSE DescribeResult(pg.items, NoErr, k2, FALSE)

describe(c, up, k) ==
    IF Paginated(c) THEN DescribePages(c, up.pages, 1, <<>>, k)
    ELSE
    IF ~c.DescribeFunc THEN DescribeResult(<<>>, Panic, k, TRUE)
    ELSE
    LET k1 == [k EXCEPT !.describe = 1]
        pg == up.pages[1]
    IN
    IF pg.fail \in CallFails
    THEN DescribeResult(<<>>, CallErrOf(pg.fail), k1, FALSE)
    ELSE IF ~c.OutputMapper THEN DescribeResult(<<>>, Panic, k1, TRUE)
    ELSE
    LET k2 == [k1 EXCEPT !.outputMapper = 1] IN
    IF pg.fail = "outputMapper" THEN DescribeResult(<<>>, OmErr, k2, FALSE)
    ELSE DescribeResult(pg.items, NoErr, k2, FALSE)

----------------------------------------------------------------------------
(* List *)

ListImpl(c, ci, ch, scope, ignoreCache, up) ==
    IF scope # Scopes[1]
    THEN Outcome(<<>>, NoScopeErr(scope), c, ci, ch, NoCalls, FALSE, <<>>)
    ELSE IF ~c.InputMapperList
    THEN Outcome(<<>>,
                 QueryError("NOTFOUND", <<"list is not supported for", ItemType,
                                          "resources">>),
                 c, ci, ch, NoCalls, FALSE, <<>>)
    ELSE
    LET v == Validate(c)
        k1 == [NoCalls EXCEPT !.validate = 1]
    IN
    IF v.err # NoErr
    THEN Outcome(<<>>, WrapAWSError(v.err), v.cfg, ci, ch, k1, FALSE, <<>>)
    ELSE
    LET ck == CacheKeyFromParts(Name, "LIST", scope, ItemType, <<>>)
        lk == Lookup(ch, ck, ignoreCache)
        k2 == [k1 EXCEPT !.ensureCache = 1, !.lookup = 1]
    IN
    IF lk.qErr # NoErr
    THEN Outcome(<<>>, lk.qErr, v.cfg, TRUE, ch, k2, TRUE, <<>>)
    ELSE IF lk.hit
    THEN Outcome(lk.items, NoErr, v.cfg, TRUE, ch, k2, TRUE, <<>>)
    ELSE
    LET k3 == [k2 EXCEPT !.inputMapper = 1] IN
    IF up.imErr
    THEN Outcome(<<>>, WrapAWSError(ImErr), v.cfg, TRUE,
                 StoreError(ch, WrapAWSError(ImErr), ck),
                 [k3 EXCEPT !.storeError = 1], FALSE, <<>>)
    ELSE
    LET d == describe(v.cfg, up, k3) IN
    IF d.err # NoErr
    THEN Outcome(<<>>, WrapAWSError(d.err), v.cfg, TRUE,
                 StoreError(ch, WrapAWSError(d.err), ck),
                 [d.calls EXCEPT !.storeError = 1], FALSE, <<>>)
    ELSE Outcome(d.items, NoErr, v.cfg, TRUE, StoreItems(ch, d.items, ck),
                 [d.calls EXCEPT !.storeItem = Len(d.items)], FALSE, d.items)

----------------------------------------------------------------------------
(* Search *)

NilItem == "nil"

\* the parse error returned as it is
ArnParseErrUnwrapped(a) == a.err

\* the query is not an ARN: the parse error, wrapped
ArnParseErr(a) == WrapAWSError(a.err)

\* the mismatch answered with the error type of any other failure
ArnScopeErrAsOther(arnScope, scope) ==
    QueryError("OTHER", <<"ARN scope", arnScope,
                          "does not match request scope", scope>>)

ArnScopeErr(arnScope, scope) ==
    QueryError("NOSCOPE", <<"ARN scope", arnScope,
                            "does not match request scope", scope>>)

\* searchARN delegating to Get without passing ignoreCache on
searchARNNeverIgnoresCache(c, ci, ch, scope, query, ignoreCache, up) ==
    LET a == ParseARN(query) IN
    IF ~a.ok
    THEN Outcome(<<>>, ArnParseErr(a), c, ci, ch, NoCalls, FALSE, <<>>)
    ELSE
    LET arnScope == FormatScope(a.AccountID, a.Region) IN
    IF arnScope # scope
    THEN Outcome(<<>>, ArnScopeErr(arnScope, scope), c, ci, ch, NoCalls, FALSE, <<>>)
    ELSE
    LET g == GetImpl(c, ci, ch, scope, ResourceID(a), FALSE, up)
        k == [g.calls EXCEPT !.get = 1]
    IN
    IF g.err # NoErr
    THEN [g EXCEPT !.err = WrapAWSError(g.err), !.calls = k]
    ELSE [g EXCEPT !.items = IF g.items = <<>> THEN <<NilItem>> ELSE g.items,
                   !.calls = k]

searchARN(c, ci, ch, scope, query, ignoreCache, up) ==
    LET a == ParseARN(query) IN
    IF ~a.ok
    THEN Outcome(<<>>, ArnParseErr(a), c, ci, ch, NoCalls, FALSE, <<>>)
    ELSE
    LET arnScope == FormatScope(a.AccountID, a.Region) IN
    IF arnScope # scope
    THEN Outcome(<<>>, ArnScopeErr(arnScope, scope), c, ci, ch, NoCalls, FALSE, <<>>)
    ELSE
    LET g == GetImpl(c, ci, ch, scope, ResourceID(a), ignoreCache, up)
        k == [g.calls EXCEPT !.get = 1]
    IN
    IF g.err # NoErr
    THEN [g EXCEPT !.err = WrapAWSError(g.err), !.calls = k]
    ELSE [g EXCEPT !.items = IF g.items = <<>> THEN <<NilItem>> ELSE g.items,
                   !.calls = k]

\* what a store does when s.cache is still nil (searchCustom never calls
\* ensureCache): the library either dereferences the nil cache or returns
\* without storing
NilStores == {"panic", "dropped"}

searchCustom(c, ci, ch, scope, query, ck, up, nilStore) ==
    LET k1 == [NoCalls EXCEPT !.inputMapper = 1] IN
    IF up.imErr
    THEN Outcome(<<>>, WrapAWSError(ImErr), c, ci, ch, k1, FALSE, <<>>)
    ELSE
    LET d == describe(c, up, k1) IN
    IF d.panic
    THEN Outcome(<<>>, Panic, c, ci, ch, d.calls, FALSE, <<>>)
    ELSE IF d.err # NoErr
    THEN IF ~ci /\ nilStore = "panic"
         THEN Outcome(<<>>, Panic, c, ci, ch, d.calls, FALSE, <<>>)
         ELSE Outcome(<<>>, WrapAWSError(d.err), c, ci,
                      IF ci THEN StoreError(ch, WrapAWSError(d.err), ck) ELSE ch,
                      [d.calls EXCEPT !.storeError = 1], FALSE, <<>>)
    ELSE IF d.items # <<>> /\ ~ci /\ nilStore = "panic"
    THEN Outcome(<<>>, Panic, c, ci, ch, d.calls, FALSE, d.items)
    ELSE Outcome(d.items, NoErr, c, ci,
                 IF ci THEN StoreItems(ch, d.items, ck) ELSE ch,
                 [d.calls EXCEPT !.storeItem = Len(d.items)], FALSE, d.items)

SearchImpl(c, ci, ch, scope, query, ignoreCache, up, nilStore) ==
    IF scope # Scopes[1]
    THEN Outcome(<<>>, NoScopeErr(scope), c, ci, ch, NoCalls, FALSE, <<>>)
    ELSE
    LET ck == CacheKeyFromParts(Name, "SEARCH", scope, ItemType, query) IN
    IF ~c.InputMapperSearch
    THEN searchARN(c, ci, ch, scope, query, ignoreCache, up)
    ELSE searchCustom(c, ci, ch, scope, query, ck, up, nilStore)

----------------------------------------------------------------------------
(* Inputs of the calls *)

RequestScopes == {FormatScope(AccountID, Region), FormatScope(OtherAccountID, Region)}

Arn(account, id) == <<"arn", "aws", "ec2", Region, account, "subnet", id>>

\* well-formed ARNs of the source's scope, one of another account, free text
\* and a string with the arn prefix but too few sections
ArnQueries ==
    {Arn(AccountID, "id-1"), Arn(AccountID, "id-2"), Arn(OtherAccountID, "id-1"),
     <<"id-1">>, <<"arn", "aws", "ec2">>}

CustomQueries == {<<"id-1">>, Arn(AccountID, "id-2")}

SearchQueries(c) == IF c.InputMapperSearch THEN CustomQueries ELSE ArnQueries

SeqsUpTo(S, n) == UNION {[1..m -> S] : m \in 0..n}

Fails == {"none", "call", "cancelled", "outputMapper"}

NoUp == [imErr |-> TRUE, pages |-> <<>>]

\* Get: one DescribeFunc answer, any short sequence of items; a source with
\* UseListForGet gets the listing of the resource type for an answer
GetUps(c) ==
    {NoUp} \cup
    {[imErr |-> FALSE, pages |-> <<Page("none", items)>>] :
        items \in IF c.UseListForGet THEN SeqsUpTo(ListedIds, MaxListedItems)
                  ELSE SeqsUpTo(GetIds, MaxGetItems)} \cup
    {[imErr |-> FALSE, pages |-> <<Page(f, <<>>)>>] : f \in Fails \ {"none"}}

\* the g-th item of the upstream listing
StreamItem(g) == IdSeq[((g - 1) % Len(IdSeq)) + 1]

Min(a, b) == IF a < b THEN a ELSE b
Max(a, b) == IF a > b THEN a ELSE b

\* n pages holding the first total items of the upstream listing, each page
\* filled up to MaxPageItems before the next one is begun
PagesOf(n, total) ==
    [i \in 1..n |->
        Page("none",
             [j \in 1..Max(0, Min(MaxPageItems, total - (i - 1) * MaxPageItems)) |->
                 StreamItem((i - 1) * MaxPageItems + j)])]

\* the same, with a failure answering the call after the n pages
FailingPagesOf(n, total, f) == Append(PagesOf(n, total), Page(f, <<>>))

\* a failure answering call k after k - 1 full pages, the paginator holding
\* more further pages behind it
PagesAroundFailure(k, f, more) ==
    FailingPagesOf(k - 1, (k - 1) * MaxPageItems, f) \o
    [i \in 1..more |-> Page("none", <<StreamItem(k * MaxPageItems + i)>>)]

\* List and custom Search: a non-paginated source answers one DescribeFunc
\* call, a paginated one between one page and MaxPages pages
ListUps(c) ==
    LET ns == IF Paginated(c) THEN 1..MaxPages ELSE {1} IN
    {NoUp} \cup
    {[imErr |-> FALSE, pages |-> PagesOf(n, total)] :
        n \in ns, total \in 0..(MaxPages * MaxPageItems)} \cup
    UNION {{[imErr |-> FALSE, pages |-> PagesAroundFailure(k, f, more)] :
               f \in Fails \ {"none"},
               more \in 0..(IF Paginated(c) THEN Min(1, MaxPages - k) ELSE 0)} :
           k \in ns}

\* the first page that fails, 0 when none does
RECURSIVE FirstFailure(_, _)
FirstFailure(pages, i) ==
    IF i > Len(pages) THEN 0
    ELSE IF pages[i].fail # "none" THEN i
    ELSE FirstFailure(pages, i + 1)

RECURSIVE Flatten(_)
Flatten(pages) ==
    IF pages = <<>> THEN <<>> ELSE Head(pages).items \o Flatten(Tail(pages))

----------------------------------------------------------------------------
(* The state machine *)

\* a source as the New...Source constructors build it: paginated, listable,
\* searched by ARN, MaxResultsPerPage left unset
BaseConfig ==
    [DescribeFunc |-> TRUE, InputMapperGet |-> TRUE, InputMapperList |-> TRUE,
     InputMapperSearch |-> FALSE, PaginatorBuilder |-> TRUE,
     OutputMapper |-> TRUE, UseListForGet |-> FALSE, MaxResultsPerPage |-> 0]

\* the sources the model starts from: the base source and its variants
Configs ==
    {BaseConfig,
     [BaseConfig EXCEPT !.PaginatorBuilder = FALSE],
     [BaseConfig EXCEPT !.UseListForGet = TRUE],
     [BaseConfig EXCEPT !.InputMapperList = FALSE],
     [BaseConfig EXCEPT !.InputMapperSearch = TRUE],
     [BaseConfig EXCEPT !.InputMapperSearch = TRUE, !.PaginatorBuilder = FALSE],
     [BaseConfig EXCEPT !.DescribeFunc = FALSE],
     [BaseConfig EXCEPT !.InputMapperGet = FALSE],
     [BaseConfig EXCEPT !.OutputMapper = FALSE],
     [BaseConfig EXCEPT !.InputMapperSearch = TRUE, !.PaginatorBuilder = FALSE,
                        !.DescribeFunc = FALSE],
     [BaseConfig EXCEPT !.InputMapperSearch = TRUE, !.OutputMapper = FALSE]}

NoCall ==
    [op |-> "none", scope |-> <<>>, query |-> <<>>, ignoreCache |-> FALSE,
     items |-> <<>>, err |-> NoErr, calls |-> NoCalls, hit |-> FALSE,
     mapped |-> <<>>, nPages |-> 0, upItems |-> <<>>, upFail |-> "none",
     failAt |-> 0, pre |-> "none"]

\* the record of a call: its arguments, its outcome, how many pages the
\* upstream held, what they held, which one fails first and how (when the
\* call went upstream), and the kind of entry the cache held for the call's
\* key before the call
CallRecord(op, scope, query, ignoreCache, up, r, pre) ==
    LET upstream == r.calls.describe + r.calls.nextPage > 0 \/
                    (r.calls.inputMapper > 0 /\ ~up.imErr)
    IN
    [op |-> op, scope |-> scope, query |-> query, ignoreCache |-> ignoreCache,
     items |-> r.items, err |-> r.err, calls |-> r.calls, hit |-> r.hit,
     mapped |-> r.mapped,
     nPages |-> IF upstream THEN Len(up.pages) ELSE 0,
     upItems |-> IF upstream THEN Flatten(up.pages) ELSE <<>>,
     upFail |-> IF upstream /\ FirstFailure(up.pages, 1) > 0
                THEN up.pages[FirstFailure(up.pages, 1)].fail
                ELSE "none",
     failAt |-> IF upstream THEN FirstFailure(up.pages, 1) ELSE 0,
     pre |-> pre.kind]

\* a goroutine that has not called the source yet
IdleProc ==
    [pc |-> "idle", op |-> "none", query |-> <<>>, ignoreCache |-> FALSE,
     sawNil |-> FALSE, hit |-> FALSE, described |-> 0,
     pending |-> [err |-> NoErr, items |-> <<>>],
     items |-> <<>>, err |-> NoErr, inst |-> {}]

Procs == 1..NumProcs

\* no call in flight, cacheInitMu unlocked, no cache constructed, no store made
ConcIdle ==
    [proc |-> [p \in Procs |-> IdleProc], mu |-> 0, creations |-> 0,
     lastStore |-> <<>>]

\* a goroutine that has not entered a rate-limited function yet
IdleCall ==
    [phase |-> "idle", fn |-> "none", sites |-> <<>>, at |-> 0,
     cancelled |-> FALSE, err |-> NoErr]

\* the result of a call of the legacy ELB source: the items (itemsNil when
\* the slice returned is nil), the error, the Marker passed to each
\* DescribeLoadBalancers call and the number of DescribeInstanceHealth calls
ELBResult(items, itemsNil, err, markers, health) ==
    [items |-> items, itemsNil |-> itemsNil, err |-> err, markers |-> markers,
     health |-> health]

NoELBCall ==
    [op |-> "none", itemContext |-> <<>>, query |-> "",
     r |-> ELBResult(<<>>, TRUE, NoErr, <<>>, 0)]

\* the zero ELBSource talking to a service without load balancers, not called
ELBIdle ==
    [src |-> [AccountID |-> "", Region |-> ""], svc |-> <<>>,
     clientCreated |-> FALSE, last |-> NoELBCall]

\* the result of a call of the IAM user functions: the UserDetails returned,
\* the groups returned, the error, and the Marker passed to each
\* ListGroupsForUser call of a GetUserGroups
IAMResult(details, groups, err, markers) ==
    [details |-> details, groups |-> groups, err |-> err, markers |-> markers]

NoIAMCall == [op |-> "none", arg |-> "", r |-> IAMResult(<<>>, <<>>, NoErr, <<>>)]

\* no listing known, no call made
IAMIdle == [groups |-> <<>>, users |-> <<>>, last |-> NoIAMCall]

NilToken == "nil"

\* NewDescribeCapacityProvidersPaginator: firstPage set, nextToken taken from
\* params.NextToken
NewDescribeCapacityProvidersPaginator(token) ==
    [firstPage |-> TRUE, nextToken |-> token]

\* a paginator with the calls made on it: NextPage calls, client requests,
\* pages fetched, the token sent with and the token returned by the last
\* page fetched, and the error of the last NextPage call
PaginatorOf(token) ==
    [p |-> NewDescribeCapacityProvidersPaginator(token), calls |-> 0,
     requests |-> 0, fetched |-> 0, sent |-> NilToken, got |-> NilToken,
     err |-> NoErr]

\* the paginator built from nil params, not used
ECSIdle == PaginatorOf(NilToken)

\* a pointer field: <<>> when nil, <<v>> when it points to v
None == <<>>
Some(v) == <<v>>
IsSet(o) == o # <<>>
Value(o) == o[1]

\* the zero types.Action
NoAction ==
    [AuthenticateCognitoConfig |-> None, AuthenticateOidcConfig |-> None,
     ForwardConfig |-> None, RedirectConfig |-> None, TargetGroupArn |-> None]

\* no action mapped
ELBv2Idle == [action |-> NoAction, requests |-> <<>>, done |-> FALSE]

\* a full bucket that is being refilled, no call acquiring from it
LimitIdle ==
    [tokens |-> MaxCapacity, refilling |-> TRUE, call |-> [p \in Procs |-> IdleCall]]

Init ==
    /\ cfg \in Configs
    /\ cacheInit = FALSE
    /\ cache = <<>>
    /\ last = NoCall
    /\ conc = ConcIdle
    /\ limit = LimitIdle
    /\ elb = ELBIdle
    /\ iam = IAMIdle
    /\ ecs = ECSIdle
    /\ elbv2 = ELBv2Idle

\* the model follows at most MaxEntries live cache entries
Room(c) == Cardinality(DOMAIN c) <= MaxEntries

Get(scope, query, ignoreCache, up) ==
    \E r \in {GetImpl(cfg, cacheInit, cache, scope, query, ignoreCache, up)} :
    LET ck == CacheKeyFromParts(Name, "GET", scope, ItemType, query)
    IN
    /\ Room(r.cache)
    /\ cfg' = r.cfg
    /\ cacheInit' = r.cacheInit
    /\ cache' = r.cache
    /\ last' = CallRecord("Get", scope, query, ignoreCache, up, r, Entry(cache, ck))
    /\ UNCHANGED <<conc, limit, elb, iam, ecs, elbv2>>

List(scope, ignoreCache, up) ==
    \E r \in {ListImpl(cfg, cacheInit, cache, scope, ignoreCache, up)} :
    LET ck == CacheKeyFromParts(Name, "LIST", scope, ItemType, <<>>)
    IN
    /\ Room(r.cache)
    /\ cfg' = r.cfg
    /\ cacheInit' = r.cacheInit
    /\ cache' = r.cache
    /\ last' = CallRecord("List", scope, <<>>, ignoreCache, up, r, Entry(cache, ck))
    /\ UNCHANGED <<conc, limit, elb, iam, ecs, elbv2>>

\* the cache entry a Search answers from and stores to: its own key with a
\* custom search, the key of the Get it delegates to with the ARN search
SearchKey(c, scope, query) ==
    IF c.InputMapperSearch \/ ~ParseARN(query).ok
    THEN CacheKeyFromParts(Name, "SEARCH", scope, ItemType, query)
    ELSE CacheKeyFromParts(Name, "GET", scope, ItemType, ResourceID(ParseARN(query)))

Search(scope, query, ignoreCache, up, nilStore) ==
    \E r \in {SearchImpl(cfg, cacheInit, cache, scope, query, ignoreCache, up,
                         nilStore)} :
    /\ Room(r.cache)
    /\ cfg' = r.cfg
    /\ cacheInit' = r.cacheInit
    /\ cache' = r.cache
    /\ last' = CallRecord("Search", scope, query, ignoreCache, up, r,
                          Entry(cache, SearchKey(cfg, scope, query)))
    /\ UNCHANGED <<conc, limit, elb, iam, ecs, elbv2>>

\* the CacheDuration of an entry elapses
Expire(ck) ==
    /\ cache' = [k \in (DOMAIN cache) \ {ck} |-> cache[k]]
    /\ last' = [NoCall EXCEPT !.op = "Expire"]
    /\ UNCHANGED <<cfg, cacheInit, conc, limit, elb, iam, ecs, elbv2>>

\* the callbacks' answers are drawn only for a call that reaches a callback
\* (the input mapper is the first one on every path); r0 is the call's
\* outcome when the input mapper fails
UpsFor(r0, ups) == IF r0.calls.inputMapper = 0 THEN {NoUp} ELSE ups

\* the outcome of a store into a nil cache is drawn only where one can happen
NilStoresFor(c, ci) == IF c.InputMapperSearch /\ ~ci THEN NilStores ELSE {"panic"}

Next ==
    \/ \E scope \in RequestScopes, query \in GetQueries, ignoreCache \in BOOLEAN :
          \E up \in UpsFor(GetImpl(cfg, cacheInit, cache, scope, query,
                                   ignoreCache, NoUp), GetUps(cfg)) :
             Get(scope, query, ignoreCache, up)
    \/ \E scope \in RequestScopes, ignoreCache \in BOOLEAN :
          \E up \in UpsFor(ListImpl(cfg, cacheInit, cache, scope, ignoreCache,
                                    NoUp), ListUps(cfg)) :
             List(scope, ignoreCache, up)
    \/ \E scope \in RequestScopes, query \in SearchQueries(cfg),
          ignoreCache \in BOOLEAN :
          \E up \in UpsFor(SearchImpl(cfg, cacheInit, cache, scope, query,
                                      ignoreCache, NoUp, "panic"),
                           IF cfg.InputMapperSearch THEN ListUps(cfg)
                           ELSE GetUps(cfg)),
             nilStore \in NilStoresFor(cfg, cacheInit) :
             Search(scope, query, ignoreCache, up, nilStore)
    \/ \E ck \in DOMAIN cache : Expire(ck)

Spec == Init /\ [][Next]_vars

----------------------------------------------------------------------------
(* Concurrent calls.  Every goroutine makes one call of Get, List or       *)
(* Cache() on the source's scope; the steps of a call that read or write   *)
(* the struct, cacheInitMu or the cache are separate actions and           *)
(* interleave with the steps of the other goroutines.  What a call does    *)
(* between two such steps is computed by GetImpl and ListImpl.             *)

\* Lock() returning although another goroutine holds the mutex
MuIgnored(m) == TRUE

\* cacheInitMu.Lock() returns when no goroutine holds the mutex
MuFree(m) == m = 0

Proc(p) == conc.proc[p]

ConcKey(pr) ==
    CacheKeyFromParts(Name, IF pr.op = "List" THEN "LIST" ELSE "GET", Scopes[1],
                      ItemType, pr.query)

\* the call of pr run against the cache ch with the callbacks answering up
CallImpl(pr, ch, ignoreCache, up) ==
    IF pr.op = "Get"
    THEN GetImpl(cfg, TRUE, ch, Scopes[1], pr.query, ignoreCache, up)
    ELSE ListImpl(cfg, TRUE, ch, Scopes[1], ignoreCache, up)

\* the callbacks' answers to a concurrent call: the input mapper fails, the
\* upstream call fails, or it yields the item asked for, or nothing (Get), a
\* listing of up to MaxPageItems items (List)
ConcUps(pr) ==
    {NoUp, [imErr |-> FALSE, pages |-> <<Page("call", <<>>)>>]} \cup
    IF pr.op = "Get"
    THEN {[imErr |-> FALSE, pages |-> <<Page("none", items)>>] :
             items \in {<<>>, <<pr.query[1]>>}}
    ELSE {[imErr |-> FALSE, pages |-> PagesOf(1, total)] : total \in 0..MaxPageItems}

\* the sources the concurrent calls run on
ConcConfigs == {BaseConfig, [BaseConfig EXCEPT !.PaginatorBuilder = FALSE]}

\* the call begins: the scope is the source's, a List needs InputMapperList
ConcCall(p, op, query, ignoreCache) ==
    /\ Proc(p).pc = "idle"
    /\ LET pr == [IdleProc EXCEPT !.op = op, !.query = query,
                                  !.ignoreCache = ignoreCache]
       IN  conc' = [conc EXCEPT !.proc[p] =
                IF op = "List" /\ ~cfg.InputMapperList
                THEN [pr EXCEPT !.pc = "done",
                                !.err = ListImpl(cfg, cacheInit, cache, Scopes[1],
                                                 ignoreCache, NoUp).err]
                ELSE [pr EXCEPT !.pc = IF op = "Cache" THEN "lock" ELSE "validate"]]
    /\ UNCHANGED <<cfg, cacheInit, cache, last, limit, elb, iam, ecs, elbv2>>

\* s.Validate(): reads the callbacks and writes MaxResultsPerPage
ConcValidate(p) ==
    /\ Proc(p).pc = "validate"
    /\ LET v == Validate(cfg) IN
         /\ cfg' = v.cfg
         /\ conc' = [conc EXCEPT !.proc[p] =
                 IF v.err # NoErr
                 THEN [@ EXCEPT !.pc = "done", !.err = WrapAWSError(v.err)]
                 ELSE [@ EXCEPT !.pc = "lock"]]
    /\ UNCHANGED <<cacheInit, cache, last, limit, elb, iam, ecs, elbv2>>

\* ensureCache: s.cacheInitMu.Lock()
ConcLock(p) ==
    /\ Proc(p).pc = "lock"
    /\ MuFree(conc.mu)
    /\ conc' = [conc EXCEPT !.mu = p, !.proc[p].pc = "check"]
    /\ UNCHANGED <<cfg, cacheInit, cache, last, limit, elb, iam, ecs, elbv2>>

\* ensureCache: if s.cache == nil
ConcCheck(p) ==
    /\ Proc(p).pc = "check"
    /\ conc' = [conc EXCEPT !.proc[p] =
            [@ EXCEPT !.sawNil = ~cacheInit,
                      !.pc = IF ~cacheInit THEN "create" ELSE "unlock"]]
    /\ UNCHANGED <<cfg, cacheInit, cache, last, limit, elb, iam, ecs, elbv2>>

\* ensureCache: s.cache = sdpcache.NewCache()
ConcCreate(p) ==
    /\ Proc(p).pc = "create"
    /\ cacheInit' = TRUE
    /\ cache' = <<>>
    /\ conc' = [conc EXCEPT !.creations = @ + 1, !.lastStore = <<>>,
                            !.proc[p].pc = "unlock"]
    /\ UNCHANGED <<cfg, last, limit, elb, iam, ecs, elbv2>>

\* ensureCache: the deferred Unlock(); Cache() then returns s.cache
ConcUnlock(p) ==
    /\ Proc(p).pc = "unlock"
    /\ conc' = [conc EXCEPT !.mu = 0, !.proc[p] =
            IF @.op = "Cache"
            THEN [@ EXCEPT !.pc = "done", !.inst = {conc.creations}]
            ELSE [@ EXCEPT !.pc = "lookup"]]
    /\ UNCHANGED <<cfg, cacheInit, cache, last, limit, elb, iam, ecs, elbv2>>

\* s.cache.Lookup: a hit returns what the cache holds, a miss goes upstream
ConcLookup(p) ==
    /\ Proc(p).pc = "lookup"
    /\ LET pr == Proc(p)
           r == CallImpl(pr, cache, pr.ignoreCache, NoUp)
       IN  conc' = [conc EXCEPT !.proc[p] =
                IF r.hit
                THEN [pr EXCEPT !.pc = "done", !.hit = TRUE, !.items = r.items,
                                !.err = r.err, !.inst = @ \cup {conc.creations}]
                ELSE [pr EXCEPT !.pc = "describe",
                                !.inst = @ \cup {conc.creations}]]
    /\ UNCHANGED <<cfg, cacheInit, cache, last, limit, elb, iam, ecs, elbv2>>

\* the input mapper, DescribeFunc or the paginator, and the output mapper:
\* the call works out its result and what it is going to store
ConcDescribe(p, up) ==
    /\ Proc(p).pc = "describe"
    /\ LET pr == Proc(p)
           r == CallImpl(pr, <<>>, TRUE, up)
       IN  conc' = [conc EXCEPT !.proc[p] =
                [pr EXCEPT !.pc = "store",
                           !.described = r.calls.describe + r.calls.nextPage,
                           !.items = r.items, !.err = r.err,
                           !.pending = [err |-> r.err, items |-> r.items]]]
    /\ UNCHANGED <<cfg, cacheInit, cache, last, limit, elb, iam, ecs, elbv2>>

\* the store keeping what the key already holds
ConcStoredKeepFirst(ch, pend, ck) ==
    IF ck \in DOMAIN ch THEN ch
    ELSE IF pend.err # NoErr THEN StoreError(ch, pend.err, ck)
    ELSE StoreItem(ch, Head(pend.items), ck)

\* s.cache.StoreError of the error, or s.cache.StoreItem of the next item
ConcStored(ch, pend, ck) ==
    IF pend.err # NoErr THEN StoreError(ch, pend.err, ck)
    ELSE StoreItem(ch, Head(pend.items), ck)

\* one store of the call, and the return after the last one
ConcStore(p) ==
    /\ Proc(p).pc = "store"
    /\ LET pr == Proc(p)
           ck == ConcKey(pr)
           pend == pr.pending
       IN  IF pend.err = NoErr /\ pend.items = <<>>
           THEN /\ cache' = cache
                /\ conc' = [conc EXCEPT !.proc[p].pc = "done"]
           ELSE LET rest == IF pend.err # NoErr THEN <<>> ELSE Tail(pend.items)
                    written == IF pend.err # NoErr THEN ErrorEntry(pend.err)
                               ELSE ItemsEntry(<<Head(pend.items)>>)
                IN  /\ cache' = ConcStored(cache, pend, ck)
                    /\ conc' = [conc EXCEPT
                          !.lastStore = Put(@, ck, [by |-> p, entry |-> written]),
                          !.proc[p] =
                              [pr EXCEPT !.pc = IF rest = <<>> THEN "done" ELSE "store",
                                         !.inst = @ \cup {conc.creations},
                                         !.pending = [err |-> NoErr, items |-> rest]]]
    /\ UNCHANGED <<cfg, cacheInit, last, limit, elb, iam, ecs, elbv2>>

ConcInit ==
    /\ cfg \in ConcConfigs
    /\ cacheInit = FALSE
    /\ cache = <<>>
    /\ last = NoCall
    /\ conc = ConcIdle
    /\ limit = LimitIdle
    /\ elb = ELBIdle
    /\ iam = IAMIdle
    /\ ecs = ECSIdle
    /\ elbv2 = ELBv2Idle

ConcNext ==
    \/ \E p \in Procs, query \in GetQueries, ignoreCache \in BOOLEAN :
          ConcCall(p, "Get", query, ignoreCache)
    \/ \E p \in Procs, ignoreCache \in BOOLEAN : ConcCall(p, "List", <<>>, ignoreCache)
    \/ \E p \in Procs : ConcCall(p, "Cache", <<>>, FALSE)
    \/ \E p \in Procs : ConcValidate(p)
    \/ \E p \in Procs : ConcLock(p)
    \/ \E p \in Procs : ConcCheck(p)
    \/ \E p \in Procs : ConcCreate(p)
    \/ \E p \in Procs : ConcUnlock(p)
    \/ \E p \in Procs : ConcLookup(p)
    \/ \E p \in Procs : \E up \in ConcUps(Proc(p)) : ConcDescribe(p, up)
    \/ \E p \in Procs : ConcStore(p)

SpecConc == ConcInit /\ [][ConcNext]_vars

----------------------------------------------------------------------------
(* Rate limiting.  A rate-limited function takes a token from the bucket   *)
(* before each call of the AWS SDK: the subnet DescribeFunc with           *)
(* limit.Wait(ctx), policyGetFunc with <-limit.C, and addTags,             *)
(* addPolicyEntities and policyListFunc with limit.TimeWait().  The SDK    *)
(* call gets the context of the call and fails once it is cancelled.       *)

\* the acquisition sites a function passes, in order, each followed by one
\* SDK call: DescribeFunc of the subnet source; policyGetFunc, then addTags
\* and one page of addPolicyEntities; one page of policyListFunc, then
\* addTags and one page of addPolicyEntities for its policy
Sites(fn) ==
    IF fn = "DescribeFunc" THEN <<"Wait">>
    ELSE IF fn = "policyGetFunc" THEN <<"C", "TimeWait", "TimeWait">>
    ELSE <<"TimeWait", "TimeWait", "TimeWait">>

LimitedFuncs == {"DescribeFunc", "policyGetFunc", "policyListFunc"}

\* limit.Wait(ctx) selects on the bucket and on ctx.Done(); limit.TimeWait()
\* is given no context and <-limit.C is a bare receive, so both wait for the
\* bucket alone
ReturnsOnCancel(site) == site = "Wait"

Call(p) == limit.call[p]

LimitFrame == UNCHANGED <<cfg, cacheInit, cache, last, conc, elb, iam, ecs, elbv2>>

LimitStart(p, fn) ==
    /\ Call(p).phase = "idle"
    /\ limit' = [limit EXCEPT !.call[p] =
            [IdleCall EXCEPT !.phase = "acquire", !.fn = fn, !.sites = Sites(fn),
                             !.at = 1]]
    /\ LimitFrame

\* the acquisition returns with a token, or, where the site watches the
\* context, because the context is cancelled (the error of Wait is dropped)
LimitAcquire(p) ==
    /\ Call(p).phase = "acquire"
    /\ \/ /\ limit.tokens > 0
          /\ limit' = [limit EXCEPT !.tokens = @ - 1, !.call[p].phase = "sdk"]
       \/ /\ ReturnsOnCancel(Call(p).sites[Call(p).at])
          /\ Call(p).cancelled
          /\ limit' = [limit EXCEPT !.call[p].phase = "sdk"]
    /\ LimitFrame

\* the SDK call: it fails with the context's error when the context is
\* cancelled and the function returns that error; otherwise the function
\* goes on to its next acquisition, or returns after the last one
LimitSdk(p) ==
    /\ Call(p).phase = "sdk"
    /\ limit' = [limit EXCEPT !.call[p] =
            IF @.cancelled THEN [@ EXCEPT !.phase = "returned", !.err = CtxErr]
            ELSE IF @.at = Len(@.sites) THEN [@ EXCEPT !.phase = "returned"]
            ELSE [@ EXCEPT !.phase = "acquire", !.at = @ + 1]]
    /\ LimitFrame

\* the context of the call is cancelled while the call is in flight
LimitCancel(p) ==
    /\ Call(p).phase \in {"acquire", "sdk"}
    /\ ~Call(p).cancelled
    /\ limit' = [limit EXCEPT !.call[p].cancelled = TRUE]
    /\ LimitFrame

\* the refill loop adds a token, up to MaxCapacity
LimitRefill ==
    /\ limit.refilling
    /\ limit.tokens < MaxCapacity
    /\ limit' = [limit EXCEPT !.tokens = @ + 1]
    /\ LimitFrame

\* the context given to Start(ctx) is cancelled: the refill stops
LimitStop ==
    /\ limit.refilling
    /\ limit' = [limit EXCEPT !.refilling = FALSE]
    /\ LimitFrame

LimitInit ==
    /\ cfg = BaseConfig
    /\ cacheInit = FALSE
    /\ cache = <<>>
    /\ last = NoCall
    /\ conc = ConcIdle
    /\ limit \in {[LimitIdle EXCEPT !.tokens = n] : n \in 0..MaxCapacity}
    /\ elb = ELBIdle
    /\ iam = IAMIdle
    /\ ecs = ECSIdle
    /\ elbv2 = ELBv2Idle

LimitNext ==
    \/ \E p \in Procs, fn \in LimitedFuncs : LimitStart(p, fn)
    \/ \E p \in Procs : LimitAcquire(p)
    \/ \E p \in Procs : LimitSdk(p)
    \/ \E p \in Procs : LimitCancel(p)
    \/ LimitRefill
    \/ LimitStop

\* a goroutine that can take its next step takes it; nothing obliges the
\* bucket to be refilled, the caller to cancel, or a call to begin
SpecLimit ==
    /\ LimitInit
    /\ [][LimitNext]_vars
    /\ \A p \in Procs : WF_vars(LimitAcquire(p)) /\ WF_vars(LimitSdk(p))

----------------------------------------------------------------------------
(* The legacy ELB source (package elasticloadbalancing).  Get and Find of  *)
(* ELBSource check the context and hand over to getImpl and findImpl with  *)
(* the client.  The service answers a DescribeLoadBalancers request        *)
(* according to its Marker (elb.svc) and a DescribeInstanceHealth request  *)
(* according to the load balancer asked about.  A context is the sequence  *)
(* of its dot-separated parts, a name the sequence of its sections.        *)

ELBType == "elasticloadbalancing-loadbalancer-v1"

NilMarker == "nil"
\* the Markers of the service, in the order in which a listing passes them
MarkerSeq == <<NilMarker, "page2", "page3">>

NoRequestErr == [type |-> "nil", str |-> <<>>, Context |-> <<>>]
ItemRequestError(t, s, c) == [type |-> t, str |-> s, Context |-> c]

DescribeLBErr == Raw("DescribeLoadBalancers failed")
HealthErr == Raw("DescribeInstanceHealth failed")

\* Contexts(): "{AccountID}.{Region}", the dot always there
Contexts(s) == << <<s.AccountID, s.Region>> >>

\* Client(): the client is created on first use
Client(created) == TRUE

NoContextErr(itemContext, own) ==
    ItemRequestError("NOCONTEXT", <<"requested context", itemContext,
                                    "does not match source context", own>>,
                     itemContext)

\* ExpandLB: one DescribeInstanceHealth call for the load balancer
ExpandLB(lb) ==
    [err |-> IF lb.healthFails THEN HealthErr ELSE NoErr, expanded |-> lb]

\* mapELBv1ToItem: a load balancer without name is refused
mapELBv1ToItem(lb, itemContext) ==
    IF lb.LoadBalancerName = <<>>
    THEN [item |-> <<>>,
          err |-> ItemRequestError("OTHER",
                      <<ELBType, "was returned with an empty name">>, itemContext)]
    ELSE [item |-> [Type |-> ELBType, Context |-> itemContext,
                    name |-> lb.LoadBalancerName],
          err |-> NoRequestErr]

getImpl(answer, itemContext, query) ==
    IF answer.fail
    THEN ELBResult(<<>>, TRUE,
                   ItemRequestError("OTHER", DescribeLBErr.str, itemContext),
                   <<NilMarker>>, 0)
    ELSE
    LET n == Len(answer.LoadBalancerDescriptions) IN
    IF n = 0
    THEN ELBResult(<<>>, TRUE,
                   ItemRequestError("NOTFOUND", <<ELBType, "not found">>, itemContext),
                   <<NilMarker>>, 0)
    ELSE IF n = 1
    THEN LET x == ExpandLB(answer.LoadBalancerDescriptions[1]) IN
         IF x.err # NoErr
         THEN ELBResult(<<>>, TRUE,
                        ItemRequestError("OTHER", x.err.str, itemContext),
                        <<NilMarker>>, 1)
         ELSE LET m == mapELBv1ToItem(x.expanded, itemContext) IN
              IF m.err.type # "nil"
              THEN ELBResult(<<>>, TRUE, m.err, <<NilMarker>>, 1)
              ELSE ELBResult(<<m.item>>, FALSE, NoRequestErr, <<NilMarker>>, 1)
    ELSE ELBResult(<<>>, TRUE,
                   ItemRequestError("OTHER",
                       <<"more than 1", ELBType, "found, found:", n>>, itemContext),
                   <<NilMarker>>, 0)

\* the loop over lbs.LoadBalancerDescriptions: a failing ExpandLB returns,
\* a load balancer that cannot be mapped is left out
RECURSIVE ExpandPage(_, _, _, _)
ExpandPage(lbs, itemContext, items, health) ==
    IF lbs = <<>> THEN [items |-> items, err |-> NoRequestErr, health |-> health]
    ELSE
    LET x == ExpandLB(Head(lbs)) IN
    IF x.err # NoErr
    THEN [items |-> <<>>, err |-> ItemRequestError("OTHER", x.err.str, itemContext),
          health |-> health + 1]
    ELSE LET m == mapELBv1ToItem(x.expanded, itemContext) IN
         ExpandPage(Tail(lbs), itemContext,
                    IF m.err.type = "nil" THEN Append(items, m.item) ELSE items,
                    health + 1)

\* the loop left after its first page, whatever NextMarker says
RECURSIVE findPagesFirstOnly(_, _, _, _, _, _)
findPagesFirstOnly(svc, itemContext, nextToken, items, markers, health) ==
    LET lbs == svc[nextToken]
        ms == Append(markers, nextToken)
    IN
    IF lbs.fail
    THEN ELBResult(items, FALSE,
                   ItemRequestError("OTHER", DescribeLBErr.str, itemContext), ms, health)
    ELSE
    LET x == ExpandPage(lbs.LoadBalancerDescriptions, itemContext, items, health) IN
    IF x.err.type # "nil" THEN ELBResult(<<>>, TRUE, x.err, ms, x.health)
    ELSE ELBResult(x.items, FALSE, NoRequestErr, ms, x.health)

\* the loop "for morePages := true; morePages;": one DescribeLoadBalancers
\* call with Marker = nextToken, the page expanded and mapped, NextMarker
\* kept as the next token
RECURSIVE findPages(_, _, _, _, _, _)
findPages(svc, itemContext, nextToken, items, markers, health) ==
    LET lbs == svc[nextToken]
        ms == Append(markers, nextToken)
    IN
    IF lbs.fail
    THEN ELBResult(items, FALSE,
                   ItemRequestError("OTHER", DescribeLBErr.str, itemContext), ms, health)
    ELSE
    LET x == ExpandPage(lbs.LoadBalancerDescriptions, itemContext, items, health) IN
    IF x.err.type # "nil" THEN ELBResult(<<>>, TRUE, x.err, ms, x.health)
    ELSE IF lbs.NextMarker = NilMarker
    THEN ELBResult(x.items, FALSE, NoRequestErr, ms, x.health)
    ELSE findPages(svc, itemContext, lbs.NextMarker, x.items, ms, x.health)

findImpl(svc, itemContext) == findPages(svc, itemContext, NilMarker, <<>>, <<>>, 0)

\* what a call leaves: whether the client exists, and the result
ELBOutcome(created, r) == [clientCreated |-> created, r |-> r]

ELBGetImpl(e, itemContext, query, answer) ==
    IF itemContext # Contexts(e.src)[1]
    THEN ELBOutcome(e.clientCreated,
             ELBResult(<<>>, TRUE, NoContextErr(itemContext, Contexts(e.src)[1]),
                       <<>>, 0))
    ELSE ELBOutcome(Client(e.clientCreated), getImpl(answer, itemContext, query))

\* Find asking for the client before it checks the context
ELBFindImplClientFirst(e, itemContext) ==
    IF itemContext # Contexts(e.src)[1]
    THEN ELBOutcome(Client(e.clientCreated),
             ELBResult(<<>>, TRUE, NoContextErr(itemContext, Contexts(e.src)[1]),
                       <<>>, 0))
    ELSE ELBOutcome(Client(e.clientCreated), findImpl(e.svc, itemContext))

ELBFindImpl(e, itemContext) ==
    IF itemContext # Contexts(e.src)[1]
    THEN ELBOutcome(e.clientCreated,
             ELBResult(<<>>, TRUE, NoContextErr(itemContext, Contexts(e.src)[1]),
                       <<>>, 0))
    ELSE ELBOutcome(Client(e.clientCreated), findImpl(e.svc, itemContext))

\* the j-th load balancer of the page behind a Marker: one with a name, one
\* without, or one whose DescribeInstanceHealth call fails
LBKinds == {"named", "unnamed", "unhealthy"}
LBOf(marker, j, kind) ==
    [LoadBalancerName |-> IF kind = "unnamed" THEN <<>> ELSE <<marker, j>>,
     healthFails |-> kind = "unhealthy"]

FailedAnswer == [fail |-> TRUE, LoadBalancerDescriptions |-> <<>>, NextMarker |-> NilMarker]

\* the answers to a request with the i-th Marker: a failure, or up to MaxLBs
\* load balancers and a NextMarker that is nil or a later Marker
AnswersAt(i) ==
    {FailedAnswer} \cup
    {[fail |-> FALSE,
      LoadBalancerDescriptions |-> [j \in DOMAIN kinds |-> LBOf(MarkerSeq[i], j, kinds[j])],
      NextMarker |-> next] :
        kinds \in SeqsUpTo(LBKinds, MaxLBs),
        next \in {NilMarker} \cup {MarkerSeq[j] : j \in (i + 1)..Len(MarkerSeq)}}

Services ==
    {[m \in {MarkerSeq[i] : i \in DOMAIN MarkerSeq} |->
        IF m = MarkerSeq[1] THEN a1 ELSE IF m = MarkerSeq[2] THEN a2 ELSE a3] :
        a1 \in AnswersAt(1), a2 \in AnswersAt(2), a3 \in AnswersAt(3)}

\* the answers to the DescribeLoadBalancers request of a Get
GetAnswers ==
    {FailedAnswer} \cup
    {[fail |-> FALSE,
      LoadBalancerDescriptions |-> [j \in DOMAIN kinds |-> LBOf("query", j, kinds[j])],
      NextMarker |-> NilMarker] : kinds \in SeqsUpTo(LBKinds, MaxLBs)}

\* the service is asked only by a Get that passes the context check
AnswersFor(e, itemContext) ==
    IF itemContext = Contexts(e.src)[1] THEN GetAnswers ELSE {FailedAnswer}

ELBSources == {[AccountID |-> AccountID, Region |-> Region],
               [AccountID |-> "", Region |-> ""]}

ELBContexts == {<<AccountID, Region>>, <<OtherAccountID, Region>>, <<"", "">>}

ELBFrame == UNCHANGED <<cfg, cacheInit, cache, last, conc, limit, iam, ecs, elbv2>>

ELBSourceGet(itemContext, query, answer) ==
    /\ LET o == ELBGetImpl(elb, itemContext, query, answer) IN
         elb' = [elb EXCEPT !.clientCreated = o.clientCreated,
                            !.last = [op |-> "Get", itemContext |-> itemContext,
                                      query |-> query, r |-> o.r]]
    /\ ELBFrame

ELBSourceFind(itemContext) ==
    /\ LET o == ELBFindImpl(elb, itemContext) IN
         elb' = [elb EXCEPT !.clientCreated = o.clientCreated,
                            !.last = [op |-> "Find", itemContext |-> itemContext,
                                      query |-> "", r |-> o.r]]
    /\ ELBFrame

ELBInit ==
    /\ cfg = BaseConfig
    /\ cacheInit = FALSE
    /\ cache = <<>>
    /\ last = NoCall
    /\ conc = ConcIdle
    /\ limit = LimitIdle
    /\ elb \in {[ELBIdle EXCEPT !.src = s, !.svc = svc] :
                  s \in ELBSources, svc \in Services}
    /\ iam = IAMIdle
    /\ ecs = ECSIdle
    /\ elbv2 = ELBv2Idle

ELBNext ==
    \/ \E itemContext \in ELBContexts :
          \E answer \in AnswersFor(elb, itemContext) :
             ELBSourceGet(itemContext, "query", answer)
    \/ \E itemContext \in ELBContexts : ELBSourceFind(itemContext)

SpecELB == ELBInit /\ [][ELBNext]_vars

----------------------------------------------------------------------------
(* The IAM user functions (package iam): GetUserGroups, UserGetFunc and    *)
(* UserListFunc.  The service answers a ListGroupsForUser request          *)
(* according to its UserName and Marker (iam.groups) and a ListUsers       *)
(* request according to its Marker (iam.users).                            *)

\* the Markers of the IAM listings, in the order in which a listing passes
\* them
IAMMarkers == <<NilMarker, "1", "2">>

UserNames == {"user-1", "user-2"}
NilUser == "nil"

ListGroupsErr == Raw("ListGroupsForUser failed")
ListUsersErr == Raw("ListUsers failed")
GetUserErr == Raw("GetUser failed")

\* one answer of a listing: it failed, or it holds Items, IsTruncated and
\* the Marker of the next request
IAMPage(items, truncated, marker) ==
    [fail |-> FALSE, Items |-> items, IsTruncated |-> truncated, Marker |-> marker]
FailedPage == [fail |-> TRUE, Items |-> <<>>, IsTruncated |-> FALSE, Marker |-> NilMarker]

\* the loop "for truncated": one ListGroupsForUser call with the Marker of
\* the answer before, the groups appended, until IsTruncated is false
RECURSIVE GroupPages(_, _, _, _)
GroupPages(listing, marker, groups, markers) ==
    LET out == listing[marker]
        ms == Append(markers, marker)
    IN
    IF out.fail THEN IAMResult(<<>>, <<>>, ListGroupsErr, ms)
    ELSE IF out.IsTruncated
    THEN GroupPages(listing, out.Marker, groups \o out.Items, ms)
    ELSE IAMResult(<<>>, groups \o out.Items, NoErr, ms)

GetUserGroups(svc, userName) == GroupPages(svc[userName], NilMarker, <<>>, <<>>)

\* UserDetails: the groups stay empty when GetUserGroups fails
UserDetails(svc, user, groupsOf) ==
    LET g == GetUserGroups(svc, groupsOf) IN
    [User |-> user, UserGroups |-> IF g.err = NoErr THEN g.groups ELSE <<>>]

\* answer is what GetUser returns: "fail", NilUser or the user
UserGetFunc(svc, query, answer) ==
    IF answer = "fail" THEN IAMResult(<<>>, <<>>, GetUserErr, <<>>)
    ELSE IF answer = NilUser
    THEN IAMResult(<<[User |-> NilUser, UserGroups |-> <<>>]>>, <<>>, NoErr, <<>>)
    ELSE IAMResult(<<UserDetails(svc, answer, answer)>>, <<>>, NoErr, <<>>)

\* the loop "for isTruncated" of UserListFunc
RECURSIVE UserPages(_, _, _)
UserPages(listing, marker, users) ==
    LET out == listing[marker] IN
    IF out.fail THEN [err |-> ListUsersErr, users |-> <<>>]
    ELSE IF out.IsTruncated THEN UserPages(listing, out.Marker, users \o out.Items)
    ELSE [err |-> NoErr, users |-> users \o out.Items]

\* "for i, user := range users" takes &user: with one variable for the whole
\* loop every UserDetails points to it, and it holds the last user when the
\* loop is over; with one variable per iteration each points to its user
LoopVars == {"shared", "perIteration"}

UserListFunc(svc, listing, loopVar) ==
    LET l == UserPages(listing, NilMarker, <<>>) IN
    IF l.err # NoErr THEN IAMResult(<<>>, <<>>, l.err, <<>>)
    ELSE IAMResult([i \in DOMAIN l.users |->
                       UserDetails(svc,
                                   IF loopVar = "shared" THEN l.users[Len(l.users)]
                                   ELSE l.users[i],
                                   l.users[i])],
                   <<>>, NoErr, <<>>)

GroupName(userName, marker, j) == <<"group", userName, marker, j>>

\* the answers to a ListGroupsForUser request with the i-th Marker: a
\* failure, a last page (with or without a Marker), or a truncated page
\* with a later Marker
GroupAnswersAt(userName, i) ==
    {FailedPage} \cup
    {IAMPage([j \in 1..k |-> GroupName(userName, IAMMarkers[i], j)], tm[1], tm[2]) :
        k \in 0..MaxPageGroups,
        tm \in {<<FALSE, NilMarker>>} \cup
                {<<t, IAMMarkers[j]>> : t \in BOOLEAN, j \in (i + 1)..Len(IAMMarkers)}}

Listing(a1, a2, a3) ==
    [m \in {IAMMarkers[i] : i \in DOMAIN IAMMarkers} |->
        IF m = IAMMarkers[1] THEN a1 ELSE IF m = IAMMarkers[2] THEN a2 ELSE a3]

\* the group listings of user-1: every chain of answers; of user-2: one
\* page of one group, or a failure
GroupListings(userName) ==
    IF userName = "user-1"
    THEN {Listing(a1, a2, a3) : a1 \in GroupAnswersAt(userName, 1),
                                a2 \in GroupAnswersAt(userName, 2),
                                a3 \in GroupAnswersAt(userName, 3)}
    ELSE {Listing(IAMPage(<<GroupName(userName, NilMarker, 1)>>, FALSE, NilMarker),
                  FailedPage, FailedPage),
          Listing(FailedPage, FailedPage, FailedPage)}

GroupServices == {[u \in UserNames |-> IF u = "user-1" THEN l1 ELSE l2] :
                     l1 \in GroupListings("user-1"), l2 \in GroupListings("user-2")}

\* the user listings: both users on one page or on two, in either order, a
\* second page that fails, no user, a first page that fails
UserListings ==
    {Listing(IAMPage(<<"user-1", "user-2">>, FALSE, NilMarker), FailedPage, FailedPage),
     Listing(IAMPage(<<"user-1">>, TRUE, "1"), IAMPage(<<"user-2">>, FALSE, NilMarker),
             FailedPage),
     Listing(IAMPage(<<"user-2">>, TRUE, "1"), IAMPage(<<"user-1">>, FALSE, NilMarker),
             FailedPage),
     Listing(IAMPage(<<"user-1">>, TRUE, "1"), FailedPage, FailedPage),
     Listing(IAMPage(<<>>, FALSE, NilMarker), FailedPage, FailedPage),
     Listing(FailedPage, FailedPage, FailedPage)}

IAMFrame == UNCHANGED <<cfg, cacheInit, cache, last, conc, limit, elb, ecs, elbv2>>

IAMGetUserGroups(userName) ==
    /\ iam' = [iam EXCEPT !.last = [op |-> "GetUserGroups", arg |-> userName,
                                     r |-> GetUserGroups(iam.groups, userName)]]
    /\ IAMFrame

IAMUserGetFunc(query, answer) ==
    /\ iam' = [iam EXCEPT !.last = [op |-> "UserGetFunc", arg |-> query,
                                     r |-> UserGetFunc(iam.groups, query, answer)]]
    /\ IAMFrame

IAMUserListFunc(loopVar) ==
    /\ iam' = [iam EXCEPT !.last = [op |-> "UserListFunc", arg |-> "",
                                     r |-> UserListFunc(iam.groups, iam.users, loopVar)]]
    /\ IAMFrame

IAMInit ==
    /\ cfg = BaseConfig
    /\ cacheInit = FALSE
    /\ cache = <<>>
    /\ last = NoCall
    /\ conc = ConcIdle
    /\ limit = LimitIdle
    /\ elb = ELBIdle
    /\ iam \in {[IAMIdle EXCEPT !.groups = g, !.users = u] :
                  g \in GroupServices, u \in UserListings}
    /\ ecs = ECSIdle
    /\ elbv2 = ELBv2Idle

IAMNext ==
    \/ \E userName \in UserNames : IAMGetUserGroups(userName)
    \/ \E query \in UserNames :
          \E answer \in {"fail", NilUser, query} : IAMUserGetFunc(query, answer)
    \/ \E loopVar \in LoopVars : IAMUserListFunc(loopVar)

SpecIAM == IAMInit /\ [][IAMNext]_vars

----------------------------------------------------------------------------
(* DescribeCapacityProvidersPaginator (package ecs).  The service answers  *)
(* a DescribeCapacityProviders request with an error or with a page and    *)
(* any NextToken: nil, empty, or a token.                                  *)

Tokens == {NilToken, "", "token-1", "token-2"}

NoMorePagesErr == Raw("no more pages available")
DescribeProvidersErr == Raw("DescribeCapacityProviders failed")

\* HasMorePages looking at the token only
HasMorePagesTokenOnly(p) == p.nextToken # NilToken /\ p.nextToken # ""

HasMorePages(p) == p.firstPage \/ (p.nextToken # NilToken /\ p.nextToken # "")

\* NextPage: the paginator it leaves, its error, whether the client was
\* called and with which token; answer is "fail" or the NextToken of the page
NextPage(p, answer) ==
    IF ~HasMorePages(p)
    THEN [p |-> p, err |-> NoMorePagesErr, called |-> FALSE, sent |-> NilToken]
    ELSE IF answer = "fail"
    THEN [p |-> p, err |-> DescribeProvidersErr, called |-> TRUE, sent |-> p.nextToken]
    ELSE LET prevToken == p.nextToken IN
         [p |-> [firstPage |-> FALSE,
                 nextToken |-> IF prevToken # NilToken /\ answer # NilToken /\
                                  prevToken = answer
                               THEN NilToken ELSE answer],
          err |-> NoErr, called |-> TRUE, sent |-> prevToken]

ECSFrame == UNCHANGED <<cfg, cacheInit, cache, last, conc, limit, elb, iam, elbv2>>

\* a paginator is built for params with the given NextToken
ECSNewPaginator(token) ==
    /\ ecs' = PaginatorOf(token)
    /\ ECSFrame

ECSNextPage(answer) ==
    /\ ecs.calls < MaxCalls
    /\ LET r == NextPage(ecs.p, answer)
           ok == r.called /\ r.err = NoErr
       IN  ecs' = [p |-> r.p, calls |-> ecs.calls + 1,
                   requests |-> ecs.requests + (IF r.called THEN 1 ELSE 0),
                   fetched |-> ecs.fetched + (IF ok THEN 1 ELSE 0),
                   sent |-> IF ok THEN r.sent ELSE ecs.sent,
                   got |-> IF ok THEN answer ELSE ecs.got,
                   err |-> r.err]
    /\ ECSFrame

ECSInit ==
    /\ cfg = BaseConfig
    /\ cacheInit = FALSE
    /\ cache = <<>>
    /\ last = NoCall
    /\ conc = ConcIdle
    /\ limit = LimitIdle
    /\ elb = ELBIdle
    /\ iam = IAMIdle
    /\ ecs \in {PaginatorOf(token) : token \in Tokens}
    /\ elbv2 = ELBv2Idle

ECSNext ==
    \/ \E token \in Tokens : ECSNewPaginator(token)
    \/ \E answer \in {"fail"} \cup Tokens : ECSNextPage(answer)

SpecECS == ECSInit /\ [][ECSNext]_vars

----------------------------------------------------------------------------
(* ActionToRequests (package elbv2): the linked item requests of a         *)
(* listener or rule action.  An ARN is the sequence of its colon-separated *)
(* sections, a URL the sequence of its parts.                              *)

ItemRequest(type, method, query, scope) ==
    [Type |-> type, Method |-> method, Query |-> query, Scope |-> scope]

GlobalScope == <<"global">>

\* url.URL.String() of the URL built from the RedirectConfig, for a URL with
\* a scheme: scheme://host[:port]path[?query]
URLString(rc) ==
    <<Value(rc.Protocol), "://">> \o
    (IF IsSet(rc.Host)
     THEN IF IsSet(rc.Port) THEN <<Value(rc.Host), ":", Value(rc.Port)>>
          ELSE <<Value(rc.Host)>>
     ELSE <<>>) \o
    (IF IsSet(rc.Path) THEN <<Value(rc.Path)>> ELSE <<>>) \o
    (IF IsSet(rc.Query) THEN <<"?", Value(rc.Query)>> ELSE <<>>)

\* the request for one target group ARN, when there is one and it parses
TargetGroupRequest(arn) ==
    IF IsSet(arn) /\ ParseARN(Value(arn)).ok
    THEN <<ItemRequest("elbv2-target-group", "SEARCH", Value(arn),
                       FormatScope(ParseARN(Value(arn)).AccountID,
                                   ParseARN(Value(arn)).Region))>>
    ELSE <<>>

\* the request for one endpoint of the OIDC configuration
EndpointRequest(endpoint) ==
    IF IsSet(endpoint)
    THEN <<ItemRequest("http", "GET", Value(endpoint), GlobalScope)>>
    ELSE <<>>

RECURSIVE ForwardRequests(_)
ForwardRequests(tgs) ==
    IF tgs = <<>> THEN <<>>
    ELSE TargetGroupRequest(Head(tgs).TargetGroupArn) \o ForwardRequests(Tail(tgs))

RedirectRequests(rc) ==
    IF IsSet(rc.Protocol) /\ Value(rc.Protocol) \in {"http", "https"}
    THEN <<ItemRequest("http", "GET", URLString(rc), GlobalScope)>>
    ELSE <<>>

ActionToRequests(action) ==
    (IF IsSet(action.AuthenticateCognitoConfig) /\
        IsSet(Value(action.AuthenticateCognitoConfig).UserPoolArn) /\
        ParseARN(Value(Value(action.AuthenticateCognitoConfig).UserPoolArn)).ok
     THEN LET arn == Value(Value(action.AuthenticateCognitoConfig).UserPoolArn) IN
          <<ItemRequest("cognito-idp-user-pool", "SEARCH", arn,
                        FormatScope(ParseARN(arn).AccountID, ParseARN(arn).Region))>>
     ELSE <<>>) \o
    (IF IsSet(action.AuthenticateOidcConfig)
     THEN LET oidc == Value(action.AuthenticateOidcConfig) IN
          EndpointRequest(oidc.AuthorizationEndpoint) \o
          EndpointRequest(oidc.TokenEndpoint) \o
          EndpointRequest(oidc.UserInfoEndpoint) \o
          (IF IsSet(action.ForwardConfig)
           THEN ForwardRequests(Value(action.ForwardConfig).TargetGroups)
           ELSE <<>>) \o
          (IF IsSet(action.RedirectConfig)
           THEN RedirectRequests(Value(action.RedirectConfig))
           ELSE <<>>) \o
          TargetGroupRequest(action.TargetGroupArn)
     ELSE <<>>)

TargetGroupArnOf(account, name) ==
    <<"arn", "aws", "elasticloadbalancing", Region, account, "targetgroup", name>>

\* a pointer to a string that is no ARN, to a target group ARN of this
\* account, to one of another account, or nil
TargetArns ==
    {None, Some(<<"not-an-arn">>), Some(TargetGroupArnOf(AccountID, "tg-1")),
     Some(TargetGroupArnOf(OtherAccountID, "tg-2"))}

CognitoConfigs ==
    {None, Some([UserPoolArn |-> None]),
     Some([UserPoolArn |->
             Some(<<"arn", "aws", "cognito-idp", Region, AccountID, "userpool", "pool">>)])}

OidcConfigs ==
    {None,
     Some([AuthorizationEndpoint |-> None, TokenEndpoint |-> None,
           UserInfoEndpoint |-> None]),
     Some([AuthorizationEndpoint |-> None, TokenEndpoint |-> Some(<<"token-url">>),
           UserInfoEndpoint |-> None]),
     Some([AuthorizationEndpoint |-> Some(<<"auth-url">>),
           TokenEndpoint |-> Some(<<"token-url">>),
           UserInfoEndpoint |-> Some(<<"userinfo-url">>)])}

ForwardConfigs ==
    {None} \cup
    {Some([TargetGroups |-> [i \in DOMAIN arns |-> [TargetGroupArn |-> arns[i]]]]) :
        arns \in SeqsUpTo(TargetArns, MaxTargetGroups)}

RedirectConfigs ==
    {None} \cup
    {Some([Protocol |-> protocol, Host |-> host, Port |-> port,
           Path |-> Some("/path"), Query |-> None]) :
        protocol \in {None, Some("http"), Some("https"), Some("#{protocol}")},
        host \in {None, Some("example.com")},
        port \in {None, Some("443")}}

Actions ==
    {[AuthenticateCognitoConfig |-> cognito, AuthenticateOidcConfig |-> oidc,
      ForwardConfig |-> forward, RedirectConfig |-> redirect,
      TargetGroupArn |-> arn] :
        cognito \in CognitoConfigs, oidc \in OidcConfigs, forward \in ForwardConfigs,
        redirect \in RedirectConfigs,
        arn \in TargetArns \ {Some(TargetGroupArnOf(OtherAccountID, "tg-2"))}}

ELBv2Frame == UNCHANGED <<cfg, cacheInit, cache, last, conc, limit, elb, iam, ecs>>

\* the output mapper maps the action
ELBv2ActionToRequests ==
    /\ ~elbv2.done
    /\ elbv2' = [elbv2 EXCEPT !.requests = ActionToRequests(elbv2.action),
                              !.done = TRUE]
    /\ ELBv2Frame

ELBv2Init ==
    /\ cfg = BaseConfig
    /\ cacheInit = FALSE
    /\ cache = <<>>
    /\ last = NoCall
    /\ conc = ConcIdle
    /\ limit = LimitIdle
    /\ elb = ELBIdle
    /\ iam = IAMIdle
    /\ ecs = ECSIdle
    /\ elbv2 \in {[ELBv2Idle EXCEPT !.action = a] : a \in Actions}

ELBv2Next == ELBv2ActionToRequests

SpecELBv2 == ELBv2Init /\ [][ELBv2Next]_vars

----------------------------------------------------------------------------
(* Vocabulary of the properties *)

CallOps == {"Get", "List", "Search"}

GetKey(scope, query) == CacheKeyFromParts(Name, "GET", scope, ItemType, query)
ListKey(scope) == CacheKeyFromParts(Name, "LIST", scope, ItemType, <<>>)

\* the call recorded in l invoked the output mapper and the mapper yielded
\* the items l.upItems
GetMapped(l) ==
    /\ l.op = "Get"
    /\ l.calls.outputMapper = 1
    /\ l.upFail = "none"

Range(f) == {f[i] : i \in DOMAIN f}

\* the step leaves the source as it was
SourceUntouched == cfg' = cfg /\ cacheInit' = cacheInit /\ cache' = cache

----------------------------------------------------------------------------
(* C1: a Get, List or Search whose scope is not the source's scope returns *)
(* a NOSCOPE error and no item, without a cache lookup or store (the cache *)
(* is not even created) and without invoking any callback.                 *)

C1_NoScope ==
    [][(last'.op \in CallOps /\ last'.scope # Scopes[1])
         => /\ last'.err.type = "NOSCOPE"
            /\ last'.items = <<>>
            /\ last'.calls = NoCalls
            /\ SourceUntouched]_vars

C1_Witness ==
    /\ last.op = "Search"
    /\ last.scope # Scopes[1]
    /\ last.err.type = "NOSCOPE"
    /\ cache # <<>>

----------------------------------------------------------------------------
(* C2: when the output mapper yields zero items Get returns a NOTFOUND     *)
(* error; a Get of the same scope and query with ignoreCache = FALSE that  *)
(* follows it before the entry expires returns the same error and invokes  *)
(* neither the input mapper nor DescribeFunc.                              *)

C2_NotFoundCached ==
    [][/\ (GetMapped(last') /\ last'.upItems = <<>>)
            => (last'.err.type = "NOTFOUND" /\ last'.items = <<>>)
       /\ (/\ GetMapped(last) /\ last.upItems = <<>>
           /\ last'.op = "Get" /\ last'.scope = last.scope
           /\ last'.query = last.query /\ ~last'.ignoreCache)
            => /\ last'.err = last.err
               /\ last'.items = <<>>
               /\ last'.calls.describe = 0
               /\ last'.calls.inputMapper = 0]_vars

C2_Witness ==
    /\ last.op = "Get"
    /\ last.hit
    /\ last.err.type = "NOTFOUND"
    /\ last.calls.describe = 0

----------------------------------------------------------------------------
(* C3: on a source without UseListForGet, when the output                  *)
(* mapper yields more than one item Get returns no item and an error of    *)
(* type OTHER whose text names every item found by its globally unique     *)
(* name, and that error is the entry of the cache under the Get key.       *)

EnumeratesAll(l) ==
    /\ Len(l.err.str) = 2
    /\ Len(l.err.str[2]) = Len(l.upItems)
    /\ \A i \in 1..Len(l.upItems) :
          l.err.str[2][i] = <<l.scope, ItemType, l.upItems[i]>>

AmbiguousAnswer(l) ==
    /\ l.items = <<>>
    /\ l.err.type = "OTHER"
    /\ EnumeratesAll(l)
    /\ Entry(cache, GetKey(l.scope, l.query)) = ErrorEntry(l.err)

C3_Ambiguous ==
    (GetMapped(last) /\ Len(last.upItems) > 1 /\ ~cfg.UseListForGet)
        => AmbiguousAnswer(last)

C3_Witness ==
    /\ GetMapped(last)
    /\ Len(last.upItems) > 1
    /\ ~cfg.UseListForGet
    /\ last.err.type = "OTHER"

\* C3 as stated: for every source, UseListForGet or not
C3_Original ==
    (GetMapped(last) /\ Len(last.upItems) > 1) => AmbiguousAnswer(last)

----------------------------------------------------------------------------
(* C4: two consecutive List calls with ignoreCache = FALSE on the source's *)
(* scope, the first of which succeeded, return the same set of items and   *)
(* the second makes no upstream call, for every item set the first one     *)
(* returned, the empty one included.                                       *)

C4_ListIdempotent ==
    [][(/\ last.op = "List" /\ last.scope = Scopes[1] /\ ~last.ignoreCache
        /\ last.err = NoErr
        /\ last'.op = "List" /\ last'.scope = last.scope /\ ~last'.ignoreCache)
         => /\ last'.err = NoErr
            /\ Range(last'.items) = Range(last.items)
            /\ last'.calls.describe = 0
            /\ last'.calls.nextPage = 0]_vars

----------------------------------------------------------------------------
(* C5: a Get, List or Search with ignoreCache = TRUE that is well formed   *)
(* (source scope, valid source, list supported, ARN of the scope) goes to  *)
(* the callbacks whatever the cache holds, and afterwards the entry of the *)
(* cache under the call's key is the fresh result: the returned items, or  *)
(* the returned error.                                                     *)

WellFormed(l) ==
    /\ l.op \in CallOps
    /\ l.scope = Scopes[1]
    /\ l.err # Panic
    /\ (l.op = "List" => cfg.InputMapperList)
    /\ Validate(cfg).err = NoErr
    /\ (l.op = "Search" /\ ~cfg.InputMapperSearch) =>
          /\ ParseARN(l.query).ok
          /\ FormatScope(ParseARN(l.query).AccountID, ParseARN(l.query).Region)
                = l.scope

CallKey(l) ==
    IF l.op = "Get" THEN GetKey(l.scope, l.query)
    ELSE IF l.op = "List" THEN ListKey(l.scope)
    ELSE SearchKey(cfg, l.scope, l.query)

ResultEntry(l) == IF l.err # NoErr THEN ErrorEntry(l.err) ELSE ItemsEntry(l.items)

C5_IgnoreCacheOverwrites ==
    (WellFormed(last) /\ last.ignoreCache)
        => /\ last.calls.inputMapper = 1
           /\ ~last.hit
           /\ Entry(cache, CallKey(last)) = ResultEntry(last)

----------------------------------------------------------------------------
(* C6: a Get or List that missed the cache, and a custom Search, on the    *)
(* source's scope, has made exactly one store (StoreItem or StoreError)    *)
(* when it returns.                                                        *)

MissedCache(l) ==
    /\ l.scope = Scopes[1]
    /\ l.err # Panic
    /\ \/ l.op \in {"Get", "List"} /\ l.calls.lookup = 1 /\ ~l.hit
       \/ l.op = "Search" /\ cfg.InputMapperSearch /\ Validate(cfg).err = NoErr

C6_OneStorePerMiss ==
    MissedCache(last) => last.calls.storeItem + last.calls.storeError = 1

----------------------------------------------------------------------------
(* C7: without InputMapperSearch, a Search for a well-formed ARN of the    *)
(* requested scope is the Get of the ARN's resource id with the same       *)
(* ignoreCache: it leaves the source as that Get leaves it, returns that   *)
(* Get's error, or the one-element list of that Get's item, and uses the   *)
(* callbacks and the cache as that Get does.  Hence a Search that follows  *)
(* a Get of the same resource id, with ignoreCache = FALSE and before the  *)
(* entry expires, makes no upstream call and returns what the Get left in  *)
(* the cache.                                                              *)

ArnOfScope(l) ==
    /\ l.op = "Search"
    /\ ~cfg.InputMapperSearch
    /\ l.scope = Scopes[1]
    /\ ParseARN(l.query).ok
    /\ FormatScope(ParseARN(l.query).AccountID, ParseARN(l.query).Region) = l.scope

C7_SearchIsGet ==
    [][/\ ArnOfScope(last') =>
            \E up \in GetUps(cfg) :
               LET g == GetImpl(cfg, cacheInit, cache, last'.scope,
                                ResourceID(ParseARN(last'.query)),
                                last'.ignoreCache, up)
               IN  /\ cfg' = g.cfg /\ cacheInit' = g.cacheInit /\ cache' = g.cache
                   /\ last'.err = g.err
                   /\ g.err # NoErr => last'.items = <<>>
                   /\ g.err = NoErr =>
                         /\ Len(last'.items) = 1
                         /\ g.items # <<>> => last'.items = g.items
                   /\ last'.calls = [g.calls EXCEPT !.get = 1]
       /\ (/\ last.op = "Get" /\ last.scope = Scopes[1]
           /\ ArnOfScope(last') /\ ~last'.ignoreCache
           /\ ResourceID(ParseARN(last'.query)) = last.query)
            => /\ last'.calls.describe = 0
               /\ last'.calls.inputMapper = 0
               /\ last.err # NoErr => last'.err = last.err
               /\ last.err = NoErr => (last'.err = NoErr /\ Len(last'.items) = 1)
               /\ (last.err = NoErr /\ ~(last.ignoreCache /\ last.pre = "items")) =>
                     last'.items = last.items]_vars

C7_Witness ==
    /\ ArnOfScope(last)
    /\ last.calls.get = 1
    /\ last.hit
    /\ last.err = NoErr
    /\ Len(last.items) = 1
    /\ last.calls.describe = 0

----------------------------------------------------------------------------
(* C8: without InputMapperSearch, a Search on the source's scope for a     *)
(* well-formed ARN whose account and region format to another scope        *)
(* returns a NOSCOPE error and no item, without calling Get, without       *)
(* invoking a callback and without reading or writing the cache.           *)

ArnOfOtherScope(l) ==
    /\ l.op = "Search"
    /\ ~cfg.InputMapperSearch
    /\ l.scope = Scopes[1]
    /\ ParseARN(l.query).ok
    /\ FormatScope(ParseARN(l.query).AccountID, ParseARN(l.query).Region) # l.scope

C8_ArnScopeMismatch ==
    [][ArnOfOtherScope(last')
         => /\ last'.err.type = "NOSCOPE"
            /\ last'.items = <<>>
            /\ last'.calls = NoCalls
            /\ SourceUntouched]_vars

C8_Witness ==
    /\ ArnOfOtherScope(last)
    /\ last.query = Arn(OtherAccountID, "id-1")
    /\ last.err.type = "NOSCOPE"
    /\ cache # <<>>

----------------------------------------------------------------------------
(* C9: without InputMapperSearch, a Search on the source's scope for a     *)
(* query that is not an ARN returns an error of type OTHER and no item; it *)
(* does not panic, does not reach Get and leaves the cache as it was.      *)

NotAnArn(l) ==
    /\ l.op = "Search"
    /\ ~cfg.InputMapperSearch
    /\ l.scope = Scopes[1]
    /\ ~ParseARN(l.query).ok

C9_MalformedArn ==
    [][NotAnArn(last')
         => /\ last'.err.type = "OTHER"
            /\ last'.items = <<>>
            /\ last'.calls = NoCalls
            /\ SourceUntouched]_vars

C9_Witness ==
    /\ NotAnArn(last)
    /\ last.query = <<"arn", "aws", "ec2">>
    /\ last.err.type = "OTHER"
    /\ cache # <<>>

----------------------------------------------------------------------------
(* C10: a List on a paginated source that misses the cache, whose input    *)
(* mapper succeeds and whose paginator yields n pages without a failure,   *)
(* calls NextPage n times and the output mapper n times, never calls       *)
(* DescribeFunc, and returns the items of the pages in page order.         *)

DrainedList(l) ==
    /\ l.op = "List"
    /\ cfg.PaginatorBuilder
    /\ l.calls.inputMapper = 1
    /\ l.nPages > 0
    /\ l.upFail = "none"

C10_Drain ==
    DrainedList(last)
        => /\ last.err = NoErr
           /\ last.calls.nextPage = last.nPages
           /\ last.calls.outputMapper = last.nPages
           /\ last.calls.describe = 0
           /\ last.items = last.upItems

\* three pages of 2, 2 and 1 items: five items, three NextPage calls
C10_Witness ==
    /\ DrainedList(last)
    /\ last.nPages = 3
    /\ last.calls.nextPage = 3
    /\ Len(last.items) = 5
    /\ Cardinality(Range(last.items)) = 5

----------------------------------------------------------------------------
(* C11: when NextPage or the output mapper fails on page k of a paginated  *)
(* List or custom Search, the call returns the wrapped error and no item,  *)
(* requests no page after page k, stores no item, and leaves the error as  *)
(* the entry of the cache under the call's key.                            *)

PageFailure(l) ==
    /\ \/ l.op = "List"
       \/ l.op = "Search" /\ cfg.InputMapperSearch
    /\ Paginated(cfg)
    /\ cfg.OutputMapper
    /\ l.failAt > 0

C11_PageFailureAborts ==
    PageFailure(last) =>
        /\ last.items = <<>>
        /\ last.err = WrapAWSError(IF last.upFail \in CallFails
                                   THEN CallErrOf(last.upFail) ELSE OmErr)
        /\ last.calls.nextPage = last.failAt
        /\ last.calls.storeItem = 0
        /\ Entry(cache, CallKey(last)) = ErrorEntry(last.err)

----------------------------------------------------------------------------
(* C12: on a source with UseListForGet, a Get that reaches the output      *)
(* mapper returns the mapped item whose unique attribute value equals the  *)
(* query and nothing else, and a NOTFOUND error when no mapped item has    *)
(* that value, whatever other items the mapper yielded.                    *)

Matches(l) == {i \in 1..Len(l.upItems) : UniqueAttributeValue(l.upItems[i]) = l.query}

C12_ListForGet ==
    (GetMapped(last) /\ cfg.UseListForGet) =>
        IF Matches(last) # {}
        THEN /\ last.err = NoErr
             /\ last.items = <<last.query[1]>>
        ELSE /\ last.items = <<>>
             /\ last.err.type = "NOTFOUND"

\* the mapper yields id-1, id-2, id-3 and the Get of id-2 returns id-2
C12_Witness ==
    /\ GetMapped(last) /\ cfg.UseListForGet
    /\ last.upItems = <<"id-1", "id-2", "id-3">>
    /\ last.query = <<"id-2">>
    /\ last.items = <<"id-2">>

----------------------------------------------------------------------------
(* C13: a List on the source's scope of a source without InputMapperList   *)
(* returns no item and an error of the kind Unsupported, a kind of its own *)
(* beside NotFound, without a cache lookup or store and without invoking   *)
(* any callback.                                                           *)

ListUnsupported(l) ==
    /\ l.op = "List"
    /\ l.scope = Scopes[1]
    /\ ~cfg.InputMapperList

C13_ListUnsupported ==
    ListUnsupported(last) =>
        /\ last.items = <<>>
        /\ last.err.type = "UNSUPPORTED"
        /\ last.calls = NoCalls

----------------------------------------------------------------------------
(* C14: a Get, List or Search whose context is cancelled while it waits in *)
(* DescribeFunc or in the paginator returns an error derived from the      *)
(* context and writes nothing to the cache: it calls neither StoreItem nor *)
(* StoreError, and the cancellation error is not the entry under its key.  *)

\* the call recorded in l made the upstream call that was cancelled
Cancelled(l) ==
    /\ l.op \in CallOps
    /\ l.upFail = "cancelled"
    /\ l.calls.describe + l.calls.nextPage = l.failAt

C14_CancelledNotCached ==
    Cancelled(last) =>
        /\ last.items = <<>>
        /\ last.err.str = CtxErr.str
        /\ last.calls.storeItem + last.calls.storeError = 0
        /\ Entry(cache, CallKey(last)).kind # "error"

----------------------------------------------------------------------------
(* C15: after a custom Search (InputMapperSearch supplied) has returned, a *)
(* Search of the same scope and query with ignoreCache = FALSE, before the *)
(* entry expires, returns the same items or the same error and invokes     *)
(* neither DescribeFunc nor NextPage.                                      *)

CustomSearch(l) ==
    /\ l.op = "Search"
    /\ cfg.InputMapperSearch
    /\ l.scope = Scopes[1]
    /\ l.err # Panic

C15_SearchMemoized ==
    [][(/\ CustomSearch(last)
        /\ last'.op = "Search" /\ last'.scope = last.scope
        /\ last'.query = last.query /\ ~last'.ignoreCache)
         => /\ last'.items = last.items
            /\ last'.err = last.err
            /\ last'.calls.describe = 0
            /\ last'.calls.nextPage = 0]_vars

----------------------------------------------------------------------------
(* C16: concurrent Get calls of the same scope and query are not           *)
(* de-duplicated.  Every Get that misses the cache and whose input mapper  *)
(* succeeds invokes DescribeFunc itself; no step of a call between its     *)
(* lookup and its return waits for another goroutine; and under a Get key  *)
(* the cache holds the one entry written by the last store made for that   *)
(* key.  The interleaving in which two such Gets both miss and both go     *)
(* upstream is the witness.                                                *)

MissedGet(p) ==
    /\ Proc(p).op = "Get"
    /\ Proc(p).pc \in {"store", "done"}
    /\ Proc(p).inst # {}
    /\ ~Proc(p).hit

ConcStep(p) ==
    \/ ConcLookup(p)
    \/ \E up \in ConcUps(Proc(p)) : ConcDescribe(p, up)
    \/ ConcStore(p)

C16_NoSingleFlight ==
    /\ \A p \in Procs :
          (MissedGet(p) /\ Proc(p).err # WrapAWSError(ImErr))
              => Proc(p).described = 1
    /\ \A p \in Procs :
          Proc(p).pc \in {"lookup", "describe", "store"} => ENABLED ConcStep(p)
    /\ \A ck \in DOMAIN conc.lastStore :
          ck[2] = "GET" => Entry(cache, ck) = conc.lastStore[ck].entry

\* two Gets of the same query, neither ignoring the cache, have both missed,
\* both invoked DescribeFunc and both returned, one with the item and one
\* with an error, and the cache holds what the last of them stored
C16_Witness ==
    \E p, q \in Procs :
        /\ p # q
        /\ MissedGet(p) /\ MissedGet(q)
        /\ Proc(p).query = Proc(q).query
        /\ ~Proc(p).ignoreCache /\ ~Proc(q).ignoreCache
        /\ Proc(p).pc = "done" /\ Proc(q).pc = "done"
        /\ Proc(p).described = 1 /\ Proc(q).described = 1
        /\ Proc(p).err = NoErr /\ Proc(q).err # NoErr
        /\ conc.lastStore[ConcKey(Proc(p))].by = q
        /\ Entry(cache, ConcKey(Proc(p))) = ErrorEntry(Proc(q).err)

----------------------------------------------------------------------------
(* C17: under every interleaving of concurrent first calls of Get, List    *)
(* and Cache() on a fresh source the cache is constructed at most once,    *)
(* exactly once as soon as a call has passed ensureCache, and every        *)
(* lookup, every store and every Cache() result is that one instance.      *)

PassedEnsureCache(p) ==
    Proc(p).pc \in {"lookup", "describe", "store"} \/ Proc(p).inst # {}

C17_OneCache ==
    /\ conc.creations <= 1
    /\ cacheInit <=> conc.creations = 1
    /\ \A p \in Procs : PassedEnsureCache(p) => conc.creations = 1
    /\ \A p \in Procs : Proc(p).inst \subseteq {1}

\* a Get or List and a Cache() have both returned; one of them found the
\* cache nil and constructed it, the other found it constructed
C17_Witness ==
    \E p, q \in Procs :
        /\ Proc(p).op \in {"Get", "List"} /\ Proc(q).op = "Cache"
        /\ Proc(p).pc = "done" /\ Proc(q).pc = "done"
        /\ Proc(p).sawNil # Proc(q).sawNil
        /\ Proc(p).inst = {1} /\ Proc(q).inst = {1}

----------------------------------------------------------------------------
(* C18: no call of Get, List or Search writes a field of the source        *)
(* configuration: every step leaves the struct (callbacks, flags,          *)
(* MaxResultsPerPage) as it was, the lazily created cache apart.           *)

C18_ConfigUnchanged == [][cfg' = cfg]_vars

----------------------------------------------------------------------------
(* C19: every Get returns either one item and no error, or no item and an  *)
(* error, on the cache-hit path as on every other; and the default ARN     *)
(* Search, which wraps the item of that Get in a list, never returns a     *)
(* list holding a nil item.                                                *)

ItemXorError(l) ==
    \/ Len(l.items) = 1 /\ l.items[1] # NilItem /\ l.err = NoErr
    \/ l.items = <<>> /\ l.err # NoErr

C19_ItemXorError ==
    /\ last.op = "Get" => ItemXorError(last)
    /\ (last.op = "Search" /\ ~cfg.InputMapperSearch) => ItemXorError(last)

\* a Get answered from the cache with the item stored by an earlier Get
C19_Witness ==
    /\ last.op = "Get"
    /\ last.hit
    /\ last.pre = "items"
    /\ Len(last.items) = 1
    /\ last.err = NoErr

----------------------------------------------------------------------------
(* C20: a call whose context is cancelled while it is in flight eventually *)
(* returns, at whichever acquisition site it is (limit.Wait(ctx),          *)
(* limit.TimeWait(), <-limit.C) and even when the bucket never yields      *)
(* another token.                                                          *)

C20_CancelledReturns ==
    \A p \in Procs : Call(p).cancelled ~> (Call(p).phase = "returned")

----------------------------------------------------------------------------
(* C21: a Get or List on a source whose DescribeFunc, Get input mapper or  *)
(* OutputMapper is nil returns a non-nil error and no item; no callback is *)
(* invoked, the cache is neither looked up nor stored to, and it is left   *)
(* as it was.                                                              *)

Misconfigured(c) == ~c.DescribeFunc \/ ~c.InputMapperGet \/ ~c.OutputMapper

NoCallbackNoCache(k) ==
    /\ k.inputMapper = 0 /\ k.describe = 0 /\ k.nextPage = 0
    /\ k.outputMapper = 0
    /\ k.ensureCache = 0 /\ k.lookup = 0 /\ k.storeItem = 0 /\ k.storeError = 0

C21_Misconfigured ==
    [][(last'.op \in {"Get", "List"} /\ Misconfigured(cfg))
         => /\ last'.err \notin {NoErr, Panic}
            /\ last'.items = <<>>
            /\ NoCallbackNoCache(last'.calls)
            /\ cacheInit' = cacheInit /\ cache' = cache]_vars

\* a List of the source's scope on a source without output mapper has been
\* refused by Validate
C21_Witness ==
    /\ last.op = "List" /\ last.scope = Scopes[1]
    /\ ~cfg.OutputMapper
    /\ last.calls.validate = 1
    /\ last.err = QueryError("OTHER", <<"source output mapper is nil">>)

----------------------------------------------------------------------------
(* C22: when the input mapper, DescribeFunc (or the paginator's NextPage)   *)
(* or the output mapper returns an error, Get and List return no item and  *)
(* an error carrying the message of the callback's error, and no stage     *)
(* after the failing one runs: no describe call after a failed input       *)
(* mapper, no output mapper on the answer of a failed describe call, no    *)
(* further page after a failed output mapper.                              *)

\* the input mapper of the call recorded in l was invoked and failed
InputMapperFailed(l) == l.calls.inputMapper = 1 /\ l.nPages = 0

\* the call returned no item and an error with the message of e
FailedWith(l, e) ==
    /\ l.items = <<>>
    /\ l.err.type \notin {"nil", "panic"}
    /\ l.err.str = e.str

C22_CallbackError ==
    last.op \in {"Get", "List"} =>
        /\ InputMapperFailed(last)
             => /\ FailedWith(last, ImErr)
                /\ last.calls.describe + last.calls.nextPage = 0
                /\ last.calls.outputMapper = 0
        /\ last.upFail \in CallFails
             => /\ FailedWith(last, CallErrOf(last.upFail))
                /\ last.calls.describe + last.calls.nextPage = last.failAt
                /\ last.calls.outputMapper = last.failAt - 1
        /\ last.upFail = "outputMapper"
             => /\ FailedWith(last, OmErr)
                /\ last.calls.describe + last.calls.nextPage = last.failAt
                /\ last.calls.outputMapper = last.failAt

\* the DescribeFunc of a source without paginator failed during a List
C22_Witness ==
    /\ last.op = "List" /\ ~Paginated(cfg)
    /\ last.upFail = "call"
    /\ last.calls.describe = 1 /\ last.calls.outputMapper = 0
    /\ last.err = QueryError("OTHER", CallErr.str)

----------------------------------------------------------------------------
(* C26: in every Get, List and Search the configuration has been validated *)
(* and the cache initialised (ensureCache) before the first callback is    *)
(* invoked and before the first cache store; no call stores into a nil     *)
(* cache or invokes a nil DescribeFunc or OutputMapper (which panics).     *)

\* callbacks invoked and cache stores made by the call
CallbacksAndStores(k) ==
    k.inputMapper + k.describe + k.nextPage + k.outputMapper +
    k.storeItem + k.storeError

C26_InitBeforeUse ==
    last.op \in CallOps =>
        /\ last.err # Panic
        /\ CallbacksAndStores(last.calls) > 0
             => last.calls.validate = 1 /\ last.calls.ensureCache = 1

----------------------------------------------------------------------------
(* C27: on a source with UseListForGet no Get answers with the "more than  *)
(* one item" error; when several of the mapped items have the unique       *)
(* attribute value asked for, Get returns the first of them in mapper      *)
(* order, without an error, and the cache holds that item under the key of *)
(* the Get.                                                                *)

MoreThanOneErr(e) ==
    /\ e.type = "OTHER"
    /\ Len(e.str) > 0
    /\ e.str[1] = "Request returned > 1 item for a GET request. Items:"

\* the position of the first mapped item with the value asked for
FirstMatch(l) == CHOOSE i \in Matches(l) : \A j \in Matches(l) : i <= j

----------------------------------------------------------------------------
(* C23: a Find of the legacy ELB source that meets no failure makes one    *)
(* DescribeLoadBalancers call per page: the first with a nil Marker, each  *)
(* further one with the NextMarker of the page before, the last one being  *)
(* the first page whose NextMarker is nil; it returns, without error, the  *)
(* mapped load balancers of these pages in page order.                     *)

\* the Find recorded in e passed the context check
Found(e) == e.last.op = "Find" /\ e.last.itemContext = Contexts(e.src)[1]

\* the names of the load balancers with a name on the pages behind ms
RECURSIVE PageNames(_, _)
PageNames(svc, ms) ==
    IF ms = <<>> THEN <<>>
    ELSE LET lbs == svc[Head(ms)].LoadBalancerDescriptions IN
         [j \in 1..Cardinality({i \in DOMAIN lbs : lbs[i].LoadBalancerName # <<>>}) |->
             LET i == CHOOSE i \in DOMAIN lbs :
                        /\ lbs[i].LoadBalancerName # <<>>
                        /\ Cardinality({h \in 1..i : lbs[h].LoadBalancerName # <<>>}) = j
             IN  lbs[i].LoadBalancerName]
         \o PageNames(svc, Tail(ms))

\* no request of the call failed
NoFailure(e) ==
    \A i \in DOMAIN e.last.r.markers :
       LET a == e.svc[e.last.r.markers[i]] IN
       /\ ~a.fail
       /\ \A j \in DOMAIN a.LoadBalancerDescriptions :
             ~a.LoadBalancerDescriptions[j].healthFails

C23_FindFollowsMarkers ==
    (Found(elb) /\ NoFailure(elb)) =>
        LET ms == elb.last.r.markers
            n == Len(ms)
        IN
        /\ n >= 1
        /\ ms[1] = NilMarker
        /\ \A i \in 1..(n - 1) :
              /\ elb.svc[ms[i]].NextMarker # NilMarker
              /\ ms[i + 1] = elb.svc[ms[i]].NextMarker
        /\ elb.svc[ms[n]].NextMarker = NilMarker
        /\ elb.last.r.err = NoRequestErr
        /\ [i \in DOMAIN elb.last.r.items |-> elb.last.r.items[i].name] =
              PageNames(elb.svc, ms)
        /\ \A i \in DOMAIN elb.last.r.items :
              elb.last.r.items[i].Context = elb.last.itemContext

\* two pages of one load balancer each give the two items in page order
C23_Witness ==
    /\ Found(elb) /\ NoFailure(elb)
    /\ elb.last.r.markers = <<NilMarker, "page2">>
    /\ elb.last.r.err = NoRequestErr
    /\ Len(elb.last.r.items) = 2
    /\ elb.last.r.items[1].name = <<NilMarker, 1>>
    /\ elb.last.r.items[2].name = <<"page2", 1>>

----------------------------------------------------------------------------
(* C24: a Get or a Find of the legacy ELB source with a context other than *)
(* the source's "{AccountID}.{Region}" returns nil items and a NOCONTEXT   *)
(* error reading "requested context <ctx> does not match source context    *)
(* <own>", creates no client and makes no API call.                        *)

C24_ContextMismatch ==
    [][(elb'.last.op \in {"Get", "Find"} /\
        elb'.last.itemContext # <<elb.src.AccountID, elb.src.Region>>)
         => /\ elb'.last.r.items = <<>> /\ elb'.last.r.itemsNil
            /\ elb'.last.r.err.type = "NOCONTEXT"
            /\ elb'.last.r.err.str =
                  <<"requested context", elb'.last.itemContext,
                    "does not match source context",
                    <<elb.src.AccountID, elb.src.Region>> >>
            /\ elb'.last.r.markers = <<>> /\ elb'.last.r.health = 0
            /\ elb'.clientCreated = elb.clientCreated]_vars

\* the zero ELBSource has refused a Get for another context, no client made
C24_Witness ==
    /\ elb.src = [AccountID |-> "", Region |-> ""]
    /\ elb.last.op = "Get"
    /\ elb.last.itemContext = <<AccountID, Region>>
    /\ elb.last.r.err.type = "NOCONTEXT"
    /\ ~elb.clientCreated

----------------------------------------------------------------------------
(* C29: a Find of the legacy ELB source that returns an error returns no   *)
(* items: the items of the pages before a failing DescribeLoadBalancers    *)
(* call or a failing ExpandLB are discarded.                               *)

C29_NoItemsWithError ==
    (elb.last.op = "Find" /\ elb.last.r.err.type # "nil")
        => elb.last.r.items = <<>>

----------------------------------------------------------------------------
(* C25: GetUserGroups drains the listing: over a listing of n pages that   *)
(* answers without failure it makes n ListGroupsForUser calls, the first   *)
(* with a nil Marker and each further one with the Marker of the answer    *)
(* before, stops at the first answer with IsTruncated false and returns    *)
(* the groups of all n pages in order; every user that UserGetFunc and     *)
(* UserListFunc return carries the drained group list of that user.        *)

\* the groups of userName, page after page up to the first page that is not
\* truncated; <<>> when a request fails
RECURSIVE DrainedGroups(_, _)
DrainedGroups(listing, marker) ==
    LET out == listing[marker] IN
    IF out.fail THEN [ok |-> FALSE, groups |-> <<>>, pages |-> 1]
    ELSE IF ~out.IsTruncated THEN [ok |-> TRUE, groups |-> out.Items, pages |-> 1]
    ELSE LET rest == DrainedGroups(listing, out.Marker) IN
         [ok |-> rest.ok, groups |-> IF rest.ok THEN out.Items \o rest.groups ELSE <<>>,
          pages |-> rest.pages + 1]

AllGroups(userName) == DrainedGroups(iam.groups[userName], NilMarker)

C25_GroupsDrained ==
    /\ (iam.last.op = "GetUserGroups" /\ AllGroups(iam.last.arg).ok) =>
          LET ms == iam.last.r.markers
              n == Len(ms)
              listing == iam.groups[iam.last.arg]
          IN
          /\ n = AllGroups(iam.last.arg).pages
          /\ ms[1] = NilMarker
          /\ \A i \in 1..(n - 1) :
                listing[ms[i]].IsTruncated /\ ms[i + 1] = listing[ms[i]].Marker
          /\ ~listing[ms[n]].IsTruncated
          /\ iam.last.r.err = NoErr
          /\ iam.last.r.groups = AllGroups(iam.last.arg).groups
    /\ iam.last.op \in {"UserGetFunc", "UserListFunc"} =>
          \A i \in DOMAIN iam.last.r.details :
             LET d == iam.last.r.details[i] IN
             (d.User # NilUser /\ AllGroups(d.User).ok)
                => d.UserGroups = AllGroups(d.User).groups

----------------------------------------------------------------------------
(* C28: HasMorePages of the DescribeCapacityProviders paginator is true    *)
(* exactly when no page has been fetched yet or the last page fetched      *)
(* returned a NextToken that is neither nil nor empty nor the token sent   *)
(* with its request; so a paginator starts with HasMorePages true and a    *)
(* page with a nil, empty or repeated token ends the listing.  A failed    *)
(* NextPage leaves firstPage and nextToken as they were, and a NextPage    *)
(* called when HasMorePages is false returns an error without a request.   *)

MorePagesExpected(e) ==
    \/ e.fetched = 0
    \/ e.got # NilToken /\ e.got # "" /\ e.got # e.sent

\* the step is a NextPage call
NextPageStep == ecs'.calls = ecs.calls + 1

C28_Paginator ==
    [][/\ HasMorePages(ecs.p) <=> MorePagesExpected(ecs)
       /\ HasMorePages(ecs'.p) <=> MorePagesExpected(ecs')
       /\ ecs.calls = 0 => HasMorePages(ecs.p)
       /\ (NextPageStep /\ ecs'.fetched = ecs.fetched + 1 /\
           (ecs'.got \in {NilToken, ""} \/ ecs'.got = ecs'.sent))
             => ~HasMorePages(ecs'.p)
       /\ (NextPageStep /\ ecs'.err # NoErr)
             => ecs'.p = ecs.p /\ ecs'.fetched = ecs.fetched
       /\ (NextPageStep /\ ~HasMorePages(ecs.p))
             => ecs'.err = NoMorePagesErr /\ ecs'.requests = ecs.requests]_vars

\* the second page repeated the token it was asked with: the listing is over
\* and a further NextPage was refused without a request
C28_Witness ==
    /\ ecs.fetched = 2 /\ ecs.requests = 2 /\ ecs.calls = 3
    /\ ecs.sent = "token-1" /\ ecs.got = "token-1"
    /\ ~HasMorePages(ecs.p)
    /\ ecs.err = NoMorePagesErr

----------------------------------------------------------------------------
(* C30: the requests of an action hold one elbv2-target-group SEARCH       *)
(* request, scoped to the account and region of the ARN, for every target  *)
(* group ARN of the action that parses (those of the ForwardConfig, then   *)
(* the action's TargetGroupArn), and one http GET request for a            *)
(* RedirectConfig whose scheme is http or https, whether or not the action *)
(* has an AuthenticateOidcConfig.                                          *)

\* the target group ARNs of the action that parse, in the order of the action
ParsingArns(action) ==
    LET tgs == IF IsSet(action.ForwardConfig)
               THEN Value(action.ForwardConfig).TargetGroups ELSE <<>>
        all == [i \in DOMAIN tgs |-> tgs[i].TargetGroupArn] \o
               <<action.TargetGroupArn>>
        Parses(o) == IsSet(o) /\ ParseARN(Value(o)).ok
    IN  SelectSeq(all, Parses)

IsTargetGroupRequest(r) == r.Type = "elbv2-target-group"

\* the action redirects to an http or https URL
RedirectsToHttp(action) ==
    /\ IsSet(action.RedirectConfig)
    /\ IsSet(Value(action.RedirectConfig).Protocol)
    /\ Value(Value(action.RedirectConfig).Protocol) \in {"http", "https"}

RedirectRequestsOf(reqs, action) ==
    {i \in DOMAIN reqs :
        reqs[i] = ItemRequest("http", "GET", URLString(Value(action.RedirectConfig)),
                              GlobalScope)}

C30_TargetGroupsAndRedirect ==
    elbv2.done =>
        LET tgr == SelectSeq(elbv2.requests, IsTargetGroupRequest)
            arns == ParsingArns(elbv2.action)
        IN
        /\ Len(tgr) = Len(arns)
        /\ \A i \in DOMAIN tgr :
              /\ tgr[i].Method = "SEARCH"
              /\ tgr[i].Query = Value(arns[i])
              /\ tgr[i].Scope = <<Value(arns[i])[5], Value(arns[i])[4]>>
        /\ RedirectsToHttp(elbv2.action)
              => Cardinality(RedirectRequestsOf(elbv2.requests, elbv2.action)) = 1

====
